---- MODULE Spec2Model ----
(***************************************************************************)
(* Resource adapters of the Azure Resource Manager Terraform provider.     *)
(*                                                                         *)
(* One resource instance of one adapter is followed at a time: `kind` is   *)
(* the adapter, `d` the plugin framework's resource data (the stored ID    *)
(* and the field values), `remote` what the Azure API holds, `last` the    *)
(* outcome of the latest operation with the remote calls it issued.  Each  *)
(* Create/Read/Update/Delete function of the source is one operator; the   *)
(* answers of the remote API (success, not found, failure, no response)    *)
(* are chosen with \E at every call.                                       *)
(***************************************************************************)
EXTENDS Naturals, Integers, Sequences, FiniteSets, TLC

VARIABLES kind, d, remote, last, retry, rt

vars == <<kind, d, remote, last, retry, rt>>

(***************************************************************************)
(* Bounds of the model.                                                    *)
(***************************************************************************)
MaxNames == 1        \* distinct resource names
MaxZones == 2        \* distinct DNS zones
MaxVals == 2         \* distinct values of the updatable field
MaxAttempts == 2     \* create attempts that fit into the Create timeout
MaxRecords == 3      \* length of a remote AAAA record list
MaxAddrs == 2        \* distinct IPv6 addresses

NameTab == <<"n1", "n2", "n3", "n4">>
ZoneTab == <<"z1", "z2", "z3", "z4">>
AddrTab == <<"::1", "::2", "::3", "::4">>

Names == {NameTab[i] : i \in 1..MaxNames}
Zones == {ZoneTab[i] : i \in 1..MaxZones}
Vals == 1..MaxVals

Kinds == {"scheduler_job_collection", "eventhub_consumer_group",
          "traffic_manager_profile", "metric_alertrule", "data_lake_store_file",
          "role_assignment", "log_analytics_solution", "key_vault_key",
          "dns_aaaa_record"}

(***************************************************************************)
(* Identifiers.  A resource ID is the sequence of its path segments; the   *)
(* empty sequence is the empty ID (d.Id() == "").                          *)
(***************************************************************************)
NoId == <<>>
BadId == <<"bad">>
BadUri == <<"%zz">>      \* not a URI: an escape sequence that is no hexadecimal number
RG == "rg1"

SegKeys == {"resourceGroups", "dnszones", "AAAA", "jobCollections", "namespaces",
            "eventhubs", "consumergroups", "trafficManagerProfiles", "alertrules",
            "solutions"}

PathOf(id, k) ==
    IF \E i \in 1..Len(id) : i % 2 = 1 /\ i < Len(id) /\ id[i] = k
    THEN id[(CHOOSE i \in 1..Len(id) : i % 2 = 1 /\ i < Len(id) /\ id[i] = k) + 1]
    ELSE ""

\* azurerm/resourceid.go: the resource group and the key/value pairs of the path;
\* an ID that is not a list of pairs under a resource group is a parse error.
parseAzureResourceID(id) ==
    [ok |-> Len(id) >= 2 /\ Len(id) % 2 = 0 /\ id[1] = "resourceGroups",
     ResourceGroup |-> PathOf(id, "resourceGroups"),
     Path |-> [k \in SegKeys |-> PathOf(id, k)]]

DnsAaaaId(resGroup, zoneName, name) ==
    <<"resourceGroups", resGroup, "dnszones", zoneName, "AAAA", name>>

JobCollectionId(resourceGroup, name) ==
    <<"resourceGroups", resourceGroup, "jobCollections", name>>

ConsumerGroupId(resGroup, namespaceName, eventHubName, name) ==
    <<"resourceGroups", resGroup, "namespaces", namespaceName,
      "eventhubs", eventHubName, "consumergroups", name>>

TrafficManagerProfileId(resGroup, name) ==
    <<"resourceGroups", resGroup, "trafficManagerProfiles", name>>

AlertRuleId(resourceGroup, name) == <<"resourceGroups", resourceGroup, "alertrules", name>>

SolutionId(resGroup, name) == <<"resourceGroups", resGroup, "solutions", name>>

RoleAssignmentId(scope, name) == <<scope, "roleAssignments", name>>

\* the key's Kid: <vault uri>/keys/<name>/<version>
KeyId(keyVaultBaseUrl, name, version) == <<keyVaultBaseUrl, "keys", name, version>>

NS == "ns1"
EH == "eh1"
SCOPE == "scope1"
VAULT == "vault1"
VERSION == "v1"
ACCOUNT == "acct1"
WORKSPACE == "ws1"
AdlsFileSystemDNSSuffix == "azuredatalakestore.net"

\* fmt.Sprintf("%s.%s%s", accountName, suffix, remoteFilePath): host and path
DataLakeStoreFileId(accountName, suffix, remoteFilePath) ==
    <<accountName, suffix, remoteFilePath>>

\* fmt.Sprintf("%s(%s)", solutionName, workspaceName)
SolutionFullName(solutionName, workspaceName) ==
    CASE <<solutionName, workspaceName>> = <<"n1", "ws1">> -> "n1(ws1)"
      [] <<solutionName, workspaceName>> = <<"n2", "ws1">> -> "n2(ws1)"
      [] <<solutionName, workspaceName>> = <<"n3", "ws1">> -> "n3(ws1)"
      [] <<solutionName, workspaceName>> = <<"n4", "ws1">> -> "n4(ws1)"
      [] OTHER -> "()"

\* strings.Split(name, "("), then the ")" trimmed off the second part
SolutionNameParts(fullName) ==
    CASE fullName = "n1(ws1)" -> <<"n1", "ws1">>
      [] fullName = "n2(ws1)" -> <<"n2", "ws1">>
      [] fullName = "n3(ws1)" -> <<"n3", "ws1">>
      [] fullName = "n4(ws1)" -> <<"n4", "ws1">>
      [] fullName = "()" -> <<"", "">>
      [] OTHER -> <<>>

RemoteIds ==
    CASE kind = "dns_aaaa_record" -> {DnsAaaaId(RG, z, n) : z \in Zones, n \in Names}
      [] kind = "scheduler_job_collection" -> {JobCollectionId(RG, n) : n \in Names}
      [] kind = "eventhub_consumer_group" -> {ConsumerGroupId(RG, NS, EH, n) : n \in Names}
      [] kind = "traffic_manager_profile" -> {TrafficManagerProfileId(RG, n) : n \in Names}
      [] kind = "metric_alertrule" -> {AlertRuleId(RG, n) : n \in Names}
      [] kind = "log_analytics_solution" ->
             {SolutionId(RG, SolutionFullName(n, WORKSPACE)) : n \in Names}
      [] kind = "role_assignment" -> {RoleAssignmentId(SCOPE, n) : n \in Names}
      [] kind = "key_vault_key" -> {KeyId(VAULT, n, VERSION) : n \in Names}
      [] kind = "data_lake_store_file" ->
             {DataLakeStoreFileId(ACCOUNT, AdlsFileSystemDNSSuffix, n) : n \in Names}

(***************************************************************************)
(* The remote API.  A response carries the HTTP status (0: no response),   *)
(* whether the SDK returned an error, and the resource's ID and value.     *)
(***************************************************************************)
Absent == [exists |-> FALSE, val |-> 0]
Stored(v) == [exists |-> TRUE, val |-> v]

Exists(rem, target) == target \in DOMAIN rem /\ rem[target].exists

Resp(status, err, id, val) == [status |-> status, err |-> err, id |-> id, val |-> val]

GetFaults == {"none", "nilid", "e500", "noresp"}
WriteFaults == {"none", "nilid", "e201", "e500", "noresp"}
DeleteFaults == {"none", "s202", "s204", "e200", "e500", "noresp"}
WaitFaults == {"none", "e404", "e500", "noresp"}
CreateFaults == {"none", "e500", "noresp"}

RemoteGet(rem, target, f) ==
    CASE f = "e500" -> Resp(500, TRUE, NoId, 0)
      [] f = "noresp" -> Resp(0, TRUE, NoId, 0)
      [] ~Exists(rem, target) -> Resp(404, TRUE, NoId, 0)
      [] f = "nilid" -> Resp(200, FALSE, NoId, rem[target].val)
      [] OTHER -> Resp(200, FALSE, target, rem[target].val)

\* A create-or-update call: the resource is written unless the call fails; an
\* "e201" answer is a creation that took effect and is reported as an error.
RemotePut(rem, target, v, f) ==
    CASE f = "e500" -> [rem |-> rem, resp |-> Resp(500, TRUE, NoId, 0)]
      [] f = "noresp" -> [rem |-> rem, resp |-> Resp(0, TRUE, NoId, 0)]
      [] target \notin DOMAIN rem -> [rem |-> rem, resp |-> Resp(404, TRUE, NoId, 0)]
      [] f = "e201" -> [rem |-> [rem EXCEPT ![target] = Stored(v)],
                        resp |-> Resp(201, TRUE, NoId, 0)]
      [] f = "nilid" -> [rem |-> [rem EXCEPT ![target] = Stored(v)],
                         resp |-> Resp(200, FALSE, NoId, v)]
      [] OTHER -> [rem |-> [rem EXCEPT ![target] = Stored(v)],
                   resp |-> Resp(200, FALSE, target, v)]

\* A delete call: the resource is gone unless the call fails; an "e200" answer is
\* a deletion that took effect and is reported as an error with status 200.
RemoteDelete(rem, target, f) ==
    CASE f = "e500" -> [rem |-> rem, resp |-> Resp(500, TRUE, NoId, 0)]
      [] f = "noresp" -> [rem |-> rem, resp |-> Resp(0, TRUE, NoId, 0)]
      [] ~Exists(rem, target) -> [rem |-> rem, resp |-> Resp(404, TRUE, NoId, 0)]
      [] OTHER -> [rem |-> [rem EXCEPT ![target] = Absent],
                   resp |-> Resp(CASE f = "s202" -> 202 [] f = "s204" -> 204 [] OTHER -> 200,
                                 f = "e200", NoId, 0)]

\* a create that does not overwrite: an existing resource is a conflict
RemoteCreateNoOverwrite(rem, target, v, f) ==
    CASE f = "e500" -> [rem |-> rem, resp |-> Resp(500, TRUE, NoId, 0)]
      [] f = "noresp" -> [rem |-> rem, resp |-> Resp(0, TRUE, NoId, 0)]
      [] target \notin DOMAIN rem -> [rem |-> rem, resp |-> Resp(404, TRUE, NoId, 0)]
      [] Exists(rem, target) -> [rem |-> rem, resp |-> Resp(403, TRUE, NoId, 0)]
      [] OTHER -> [rem |-> [rem EXCEPT ![target] = Stored(v)],
                   resp |-> Resp(201, FALSE, target, v)]

\* an update of an existing resource: a missing one is not found
RemoteUpdate(rem, target, v, f) ==
    CASE f = "e500" -> [rem |-> rem, resp |-> Resp(500, TRUE, NoId, 0)]
      [] f = "noresp" -> [rem |-> rem, resp |-> Resp(0, TRUE, NoId, 0)]
      [] ~Exists(rem, target) -> [rem |-> rem, resp |-> Resp(404, TRUE, NoId, 0)]
      [] OTHER -> [rem |-> [rem EXCEPT ![target] = Stored(v)],
                   resp |-> Resp(200, FALSE, target, v)]

\* the wait for a long-running delete: the answer of the last poll
RemoteWait(f) ==
    CASE f = "e404" -> Resp(404, TRUE, NoId, 0)
      [] f = "e500" -> Resp(500, TRUE, NoId, 0)
      [] f = "noresp" -> Resp(0, TRUE, NoId, 0)
      [] OTHER -> Resp(200, FALSE, NoId, 0)

\* azurerm/utils: the response exists and its status is 404
ResponseWasNotFound(resp) == resp.status = 404

\* azurerm/helpers/tf: the Create timeout for a new resource, else the Update one
TimeoutForCreateUpdate(isNew) == IF isNew THEN "TimeoutCreate" ELSE "TimeoutUpdate"

Call(api, role, ctx, target, resp) ==
    [api |-> api, role |-> role, ctx |-> ctx, target |-> target,
     status |-> resp.status, err |-> resp.err, id |-> resp.id]

(***************************************************************************)
(* The end of an operation: the framework keeps the resource data only     *)
(* while it has an ID.                                                     *)
(***************************************************************************)
Blank == [x \in {} |-> ""]

NoRetry == [active |-> FALSE]

NoRecords == [stage |-> "none"]

Ret(op, dd, rem, calls, err) ==
    /\ d' = IF dd.id = NoId THEN [id |-> NoId, f |-> Blank] ELSE dd
    /\ remote' = rem
    /\ last' = [op |-> op, err |-> err, calls |-> calls]
    /\ retry' = NoRetry
    /\ UNCHANGED <<kind, rt>>

Idle == ~retry.active

\* d.Get: the field's value, the zero value when the field is not set
Get(dd, k) == IF k \in DOMAIN dd.f THEN dd.f[k] ELSE ""
GetInt(dd, k) == IF k \in DOMAIN dd.f THEN dd.f[k] ELSE 0

(***************************************************************************)
(* DNS AAAA record (src/unnamed/part_004)                                  *)
(***************************************************************************)
DnsAaaaConfigs ==
    [name : Names, resource_group_name : {RG}, zone_name : Zones, ttl : Vals]

resourceArmDnsAaaaRecordRead(dd, rem, log, op) ==
    LET id == parseAzureResourceID(dd.id)
        resGroup == id.ResourceGroup
        name == id.Path["AAAA"]
        zoneName == id.Path["dnszones"]
        target == DnsAaaaId(resGroup, zoneName, name)
    IN IF ~id.ok THEN Ret(op, dd, rem, log, "parse")
       ELSE \E c \in GetFaults :
            LET resp == RemoteGet(rem, target, c)
                log1 == Append(log, Call("Get", "read", "StopContext", target, resp))
            IN IF resp.err
               THEN IF ResponseWasNotFound(resp)
                    THEN Ret(op, [dd EXCEPT !.id = NoId], rem, log1, "nil")
                    ELSE Ret(op, dd, rem, log1, "error")
               ELSE Ret(op, [dd EXCEPT !.f = [name |-> name, resource_group_name |-> resGroup,
                                              zone_name |-> zoneName, ttl |-> resp.val]],
                        rem, log1, "nil")

\* the write call and what follows it (lines 83-115)
DnsAaaaWrite(dd, isNew, op, target, log1) ==
    \E c2 \in WriteFaults :
       LET w == RemotePut(remote, target, GetInt(dd, "ttl"), c2)
           log2 == Append(log1, Call("CreateOrUpdate", "write",
                                     TimeoutForCreateUpdate(isNew), target, w.resp))
       IN IF w.resp.err THEN Ret(op, dd, w.rem, log2, "error")
          ELSE IF w.resp.id = NoId THEN Ret(op, dd, w.rem, log2, "error")
          ELSE resourceArmDnsAaaaRecordRead([dd EXCEPT !.id = w.resp.id], w.rem, log2, op)

resourceArmDnsAaaaRecordCreateOrUpdate(dd, isNew, op) ==
    LET name == Get(dd, "name")
        resGroup == Get(dd, "resource_group_name")
        zoneName == Get(dd, "zone_name")
        target == DnsAaaaId(resGroup, zoneName, name)
    IN IF isNew
       THEN \E c1 \in GetFaults :
            LET pre == RemoteGet(remote, target, c1)
                log1 == <<Call("Get", "precheck", "StopContext", target, pre)>>
            IN IF pre.err /\ ~ResponseWasNotFound(pre)
               THEN Ret(op, dd, remote, log1, "error")
               ELSE IF pre.id # NoId
               THEN Ret(op, dd, remote, log1, "import")
               ELSE DnsAaaaWrite(dd, isNew, op, target, log1)
       ELSE DnsAaaaWrite(dd, isNew, op, target, <<>>)

resourceArmDnsAaaaRecordDelete(dd, op) ==
    LET id == parseAzureResourceID(dd.id)
        resGroup == id.ResourceGroup
        name == id.Path["AAAA"]
        zoneName == id.Path["dnszones"]
        target == DnsAaaaId(resGroup, zoneName, name)
    IN IF ~id.ok THEN Ret(op, dd, remote, <<>>, "parse")
       ELSE \E c \in DeleteFaults :
            LET x == RemoteDelete(remote, target, c)
                log1 == <<Call("Delete", "delete", "TimeoutDelete", target, x.resp)>>
            IN IF x.resp.status = 0 THEN Ret(op, dd, x.rem, log1, "panic")
               ELSE IF x.resp.status # 200 THEN Ret(op, dd, x.rem, log1, "error")
               ELSE Ret(op, dd, x.rem, log1, "nil")

DnsAaaaRecord_Create ==
    /\ kind = "dns_aaaa_record" /\ Idle /\ d.id = NoId
    /\ \E cfg \in DnsAaaaConfigs :
          resourceArmDnsAaaaRecordCreateOrUpdate([id |-> NoId, f |-> cfg], TRUE, "Create")

\* name and resource_group_name force a new resource; zone_name and ttl do not
DnsAaaaRecord_Update ==
    /\ kind = "dns_aaaa_record" /\ Idle /\ d.id # NoId /\ d.f # Blank
    /\ \E z \in Zones, v \in Vals :
          /\ resourceArmDnsAaaaRecordCreateOrUpdate(
                 [d EXCEPT !.f.zone_name = z, !.f.ttl = v], FALSE, "Update")

DnsAaaaRecord_Read ==
    /\ kind = "dns_aaaa_record" /\ Idle /\ d.id # NoId
    /\ resourceArmDnsAaaaRecordRead(d, remote, <<>>, "Read")

DnsAaaaRecord_Delete ==
    /\ kind = "dns_aaaa_record" /\ Idle /\ d.id # NoId
    /\ resourceArmDnsAaaaRecordDelete(d, "Delete")

(***************************************************************************)
(* Scheduler job collection                                                *)
(* (src/azurerm/resource_arm_scheduler_job_collection.go)                  *)
(***************************************************************************)
JobCollectionConfigs == [name : Names, resource_group_name : {RG}, state : Vals]

resourceArmSchedulerJobCollectionRead(dd, rem, log, op) ==
    LET id == parseAzureResourceID(dd.id)
        name == id.Path["jobCollections"]
        resourceGroup == id.ResourceGroup
        target == JobCollectionId(resourceGroup, name)
    IN IF ~id.ok THEN Ret(op, dd, rem, log, "parse")
       ELSE \E c \in GetFaults :
            LET collection == RemoteGet(rem, target, c)
                log1 == Append(log, Call("Get", "read", "StopContext", target, collection))
            IN IF collection.err
               THEN IF ResponseWasNotFound(collection)
                    THEN Ret(op, [dd EXCEPT !.id = NoId], rem, log1, "nil")
                    ELSE Ret(op, dd, rem, log1, "error")
               ELSE Ret(op, [dd EXCEPT !.f = [name |-> name,
                                              resource_group_name |-> resourceGroup,
                                              state |-> collection.val]],
                        rem, log1, "nil")

\* a write that stores the ID it was called with, without a re-read
JobCollectionWrite_NoReread(dd, isNew, op, target, log1) ==
    \E c2 \in WriteFaults :
       LET w == RemotePut(remote, target, GetInt(dd, "state"), c2)
           log2 == Append(log1, Call("CreateOrUpdate", "write",
                                     TimeoutForCreateUpdate(isNew), target, w.resp))
       IN Ret(op, [dd EXCEPT !.id = target], w.rem, log2,
              IF w.resp.err THEN "error" ELSE "nil")

\* the write call, the re-read and what follows them (lines 147-183)
JobCollectionWrite(dd, isNew, op, target, log1) ==
    \E c2 \in WriteFaults :
       LET w == RemotePut(remote, target, GetInt(dd, "state"), c2)
           log2 == Append(log1, Call("CreateOrUpdate", "write",
                                     TimeoutForCreateUpdate(isNew), target, w.resp))
       IN IF w.resp.err THEN Ret(op, dd, w.rem, log2, "error")
          ELSE \E c3 \in GetFaults :
               LET collection == RemoteGet(w.rem, target, c3)
                   log3 == Append(log2, Call("Get", "reread", "StopContext", target, collection))
               IN IF collection.err THEN Ret(op, dd, w.rem, log3, "error")
                  ELSE IF collection.id = NoId THEN Ret(op, dd, w.rem, log3, "panic")
                  ELSE resourceArmSchedulerJobCollectionRead(
                           [dd EXCEPT !.id = collection.id], w.rem, log3, op)

resourceArmSchedulerJobCollectionCreateUpdate(dd, isNew, op) ==
    LET name == Get(dd, "name")
        resourceGroup == Get(dd, "resource_group_name")
        target == JobCollectionId(resourceGroup, name)
    IN IF isNew
       THEN \E c1 \in GetFaults :
            LET resp == RemoteGet(remote, target, c1)
                log1 == <<Call("Get", "precheck", "StopContext", target, resp)>>
            IN IF resp.err /\ ~ResponseWasNotFound(resp)
               THEN Ret(op, dd, remote, log1, "error")
               ELSE IF resp.id # NoId
               THEN Ret(op, dd, remote, log1, "import")
               ELSE JobCollectionWrite(dd, isNew, op, target, log1)
       ELSE JobCollectionWrite(dd, isNew, op, target, <<>>)

resourceArmSchedulerJobCollectionDelete(dd, op) ==
    LET id == parseAzureResourceID(dd.id)
        name == id.Path["jobCollections"]
        resourceGroup == id.ResourceGroup
        target == JobCollectionId(resourceGroup, name)
    IN IF ~id.ok THEN Ret(op, dd, remote, <<>>, "parse")
       ELSE \E c \in DeleteFaults :
            LET x == RemoteDelete(remote, target, c)
                log1 == <<Call("Delete", "delete", "StopContext", target, x.resp)>>
            IN IF x.resp.err /\ ~ResponseWasNotFound(x.resp)
               THEN Ret(op, dd, x.rem, log1, "error")
               ELSE \E c2 \in WaitFaults :
                    LET w == RemoteWait(c2)
                        log2 == Append(log1, Call("WaitForCompletionRef", "wait",
                                                  "TimeoutDelete", target, w))
                    IN IF w.err /\ ~ResponseWasNotFound(w)
                       THEN Ret(op, dd, x.rem, log2, "error")
                       ELSE Ret(op, dd, x.rem, log2, "nil")

SchedulerJobCollection_Create ==
    /\ kind = "scheduler_job_collection" /\ Idle /\ d.id = NoId
    /\ \E cfg \in JobCollectionConfigs :
          resourceArmSchedulerJobCollectionCreateUpdate([id |-> NoId, f |-> cfg], TRUE, "Create")

SchedulerJobCollection_Update ==
    /\ kind = "scheduler_job_collection" /\ Idle /\ d.id # NoId /\ d.f # Blank
    /\ \E v \in Vals :
          resourceArmSchedulerJobCollectionCreateUpdate([d EXCEPT !.f.state = v], FALSE, "Update")

SchedulerJobCollection_Read ==
    /\ kind = "scheduler_job_collection" /\ Idle /\ d.id # NoId
    /\ resourceArmSchedulerJobCollectionRead(d, remote, <<>>, "Read")

SchedulerJobCollection_Delete ==
    /\ kind = "scheduler_job_collection" /\ Idle /\ d.id # NoId
    /\ resourceArmSchedulerJobCollectionDelete(d, "Delete")

(***************************************************************************)
(* Event hub consumer group                                                *)
(* (src/azurerm/resource_arm_eventhub_consumer_group.go)                   *)
(***************************************************************************)
ConsumerGroupConfigs ==
    [name : Names, namespace_name : {NS}, eventhub_name : {EH},
     resource_group_name : {RG}, user_metadata : Vals]

resourceArmEventHubConsumerGroupRead(dd, rem, log, op) ==
    LET id == parseAzureResourceID(dd.id)
        resGroup == id.ResourceGroup
        namespaceName == id.Path["namespaces"]
        eventHubName == id.Path["eventhubs"]
        name == id.Path["consumergroups"]
        target == ConsumerGroupId(resGroup, namespaceName, eventHubName, name)
    IN IF ~id.ok THEN Ret(op, dd, rem, log, "parse")
       ELSE \E c \in GetFaults :
            LET resp == RemoteGet(rem, target, c)
                log1 == Append(log, Call("Get", "read", "StopContext", target, resp))
            IN IF resp.err
               THEN IF ResponseWasNotFound(resp)
                    THEN Ret(op, [dd EXCEPT !.id = NoId], rem, log1, "nil")
                    ELSE Ret(op, dd, rem, log1, "error")
               ELSE Ret(op, [dd EXCEPT !.f = [name |-> name, eventhub_name |-> eventHubName,
                                              namespace_name |-> namespaceName,
                                              resource_group_name |-> resGroup,
                                              user_metadata |-> resp.val]],
                        rem, log1, "nil")

\* a faulty write: the user metadata is left out of the parameters
ConsumerGroupWrite_NoUserMetadata(dd, isNew, op, target, log1) ==
    \E c2 \in WriteFaults :
       LET w == RemotePut(remote, target, 0, c2)
           log2 == Append(log1, Call("CreateOrUpdate", "write",
                                     TimeoutForCreateUpdate(isNew), target, w.resp))
       IN IF w.resp.err THEN Ret(op, dd, w.rem, log2, "error")
          ELSE \E c3 \in GetFaults :
               LET read == RemoteGet(w.rem, target, c3)
                   log3 == Append(log2, Call("Get", "reread", "StopContext", target, read))
               IN IF read.err THEN Ret(op, dd, w.rem, log3, "error")
                  ELSE IF read.id = NoId THEN Ret(op, dd, w.rem, log3, "error")
                  ELSE resourceArmEventHubConsumerGroupRead(
                           [dd EXCEPT !.id = read.id], w.rem, log3, op)

\* the write call, the re-read and what follows them (lines 91-119)
ConsumerGroupWrite(dd, isNew, op, target, log1) ==
    \E c2 \in WriteFaults :
       LET w == RemotePut(remote, target, GetInt(dd, "user_metadata"), c2)
           log2 == Append(log1, Call("CreateOrUpdate", "write",
                                     TimeoutForCreateUpdate(isNew), target, w.resp))
       IN IF w.resp.err THEN Ret(op, dd, w.rem, log2, "error")
          ELSE \E c3 \in GetFaults :
               LET read == RemoteGet(w.rem, target, c3)
                   log3 == Append(log2, Call("Get", "reread", "StopContext", target, read))
               IN IF read.err THEN Ret(op, dd, w.rem, log3, "error")
                  ELSE IF read.id = NoId THEN Ret(op, dd, w.rem, log3, "error")
                  ELSE resourceArmEventHubConsumerGroupRead(
                           [dd EXCEPT !.id = read.id], w.rem, log3, op)

resourceArmEventHubConsumerGroupCreateUpdate(dd, isNew, op) ==
    LET name == Get(dd, "name")
        namespaceName == Get(dd, "namespace_name")
        eventHubName == Get(dd, "eventhub_name")
        resGroup == Get(dd, "resource_group_name")
        target == ConsumerGroupId(resGroup, namespaceName, eventHubName, name)
    IN IF isNew
       THEN \E c1 \in GetFaults :
            LET resp == RemoteGet(remote, target, c1)
                log1 == <<Call("Get", "precheck", "StopContext", target, resp)>>
            IN IF resp.err /\ ~ResponseWasNotFound(resp)
               THEN Ret(op, dd, remote, log1, "error")
               ELSE IF resp.id # NoId
               THEN Ret(op, dd, remote, log1, "import")
               ELSE ConsumerGroupWrite(dd, isNew, op, target, log1)
       ELSE ConsumerGroupWrite(dd, isNew, op, target, <<>>)

\* a Delete that passes over every failure of the remote call
ConsumerGroupDelete_SwallowsAll(dd, op) ==
    \E c \in DeleteFaults :
       LET x == RemoteDelete(remote, dd.id, c)
       IN Ret(op, dd, x.rem,
              <<Call("Delete", "delete", TimeoutForCreateUpdate(FALSE), dd.id, x.resp)>>,
              "nil")

resourceArmEventHubConsumerGroupDelete(dd, op) ==
    LET id == parseAzureResourceID(dd.id)
        resGroup == id.ResourceGroup
        namespaceName == id.Path["namespaces"]
        eventHubName == id.Path["eventhubs"]
        name == id.Path["consumergroups"]
        target == ConsumerGroupId(resGroup, namespaceName, eventHubName, name)
    IN IF ~id.ok THEN Ret(op, dd, remote, <<>>, "parse")
       ELSE \E c \in DeleteFaults :
            LET x == RemoteDelete(remote, target, c)
                log1 == <<Call("Delete", "delete", TimeoutForCreateUpdate(FALSE),
                               target, x.resp)>>
            IN IF x.resp.err /\ ~ResponseWasNotFound(x.resp)
               THEN Ret(op, dd, x.rem, log1, "error")
               ELSE Ret(op, dd, x.rem, log1, "nil")

EventHubConsumerGroup_Create ==
    /\ kind = "eventhub_consumer_group" /\ Idle /\ d.id = NoId
    /\ \E cfg \in ConsumerGroupConfigs :
          resourceArmEventHubConsumerGroupCreateUpdate([id |-> NoId, f |-> cfg], TRUE, "Create")

EventHubConsumerGroup_Update ==
    /\ kind = "eventhub_consumer_group" /\ Idle /\ d.id # NoId /\ d.f # Blank
    /\ \E v \in Vals :
          resourceArmEventHubConsumerGroupCreateUpdate(
              [d EXCEPT !.f.user_metadata = v], FALSE, "Update")

EventHubConsumerGroup_Read ==
    /\ kind = "eventhub_consumer_group" /\ Idle /\ d.id # NoId
    /\ resourceArmEventHubConsumerGroupRead(d, remote, <<>>, "Read")

EventHubConsumerGroup_Delete ==
    /\ kind = "eventhub_consumer_group" /\ Idle /\ d.id # NoId
    /\ resourceArmEventHubConsumerGroupDelete(d, "Delete")

(***************************************************************************)
(* Traffic manager profile                                                 *)
(* (src/azurerm/resource_arm_traffic_manager_profile.go)                   *)
(***************************************************************************)
TrafficManagerProfileConfigs ==
    [name : Names, resource_group_name : {RG}, traffic_routing_method : Vals]

resourceArmTrafficManagerProfileRead(dd, rem, log, op) ==
    LET id == parseAzureResourceID(dd.id)
        resGroup == id.ResourceGroup
        name == id.Path["trafficManagerProfiles"]
        target == TrafficManagerProfileId(resGroup, name)
    IN IF ~id.ok THEN Ret(op, dd, rem, log, "parse")
       ELSE \E c \in GetFaults :
            LET resp == RemoteGet(rem, target, c)
                log1 == Append(log, Call("Get", "read", "StopContext", target, resp))
            IN IF resp.err
               THEN IF ResponseWasNotFound(resp)
                    THEN Ret(op, [dd EXCEPT !.id = NoId], rem, log1, "nil")
                    ELSE Ret(op, dd, rem, log1, "error")
               ELSE Ret(op, [dd EXCEPT !.f = [name |-> name, resource_group_name |-> resGroup,
                                              traffic_routing_method |-> resp.val]],
                        rem, log1, "nil")

\* the write call, the re-read and what follows them (lines 148-176)
TrafficManagerProfileWrite(dd, isNew, op, target, log1) ==
    \E c2 \in WriteFaults :
       LET w == RemotePut(remote, target, GetInt(dd, "traffic_routing_method"), c2)
           log2 == Append(log1, Call("CreateOrUpdate", "write",
                                     TimeoutForCreateUpdate(isNew), target, w.resp))
       IN IF w.resp.err THEN Ret(op, dd, w.rem, log2, "error")
          ELSE \E c3 \in GetFaults :
               LET read == RemoteGet(w.rem, target, c3)
                   log3 == Append(log2, Call("Get", "reread", "StopContext", target, read))
               IN IF read.err THEN Ret(op, dd, w.rem, log3, "error")
                  ELSE IF read.id = NoId THEN Ret(op, dd, w.rem, log3, "error")
                  ELSE resourceArmTrafficManagerProfileRead(
                           [dd EXCEPT !.id = read.id], w.rem, log3, op)

resourceArmTrafficManagerProfileCreateUpdate(dd, isNew, op) ==
    LET name == Get(dd, "name")
        resGroup == Get(dd, "resource_group_name")
        target == TrafficManagerProfileId(resGroup, name)
    IN IF isNew
       THEN \E c1 \in GetFaults :
            LET resp == RemoteGet(remote, target, c1)
                log1 == <<Call("Get", "precheck", "StopContext", target, resp)>>
            IN IF resp.err /\ ~ResponseWasNotFound(resp)
               THEN Ret(op, dd, remote, log1, "error")
               ELSE IF resp.id # NoId
               THEN Ret(op, dd, remote, log1, "import")
               ELSE TrafficManagerProfileWrite(dd, isNew, op, target, log1)
       ELSE TrafficManagerProfileWrite(dd, isNew, op, target, <<>>)

resourceArmTrafficManagerProfileDelete(dd, op) ==
    LET id == parseAzureResourceID(dd.id)
        resGroup == id.ResourceGroup
        name == id.Path["trafficManagerProfiles"]
        target == TrafficManagerProfileId(resGroup, name)
    IN IF ~id.ok THEN Ret(op, dd, remote, <<>>, "parse")
       ELSE \E c \in DeleteFaults :
            LET x == RemoteDelete(remote, target, c)
                log1 == <<Call("Delete", "delete", "TimeoutDelete", target, x.resp)>>
            IN IF x.resp.err /\ ~ResponseWasNotFound(x.resp)
               THEN Ret(op, dd, x.rem, log1, "error")
               ELSE Ret(op, dd, x.rem, log1, "nil")

TrafficManagerProfile_Create ==
    /\ kind = "traffic_manager_profile" /\ Idle /\ d.id = NoId
    /\ \E cfg \in TrafficManagerProfileConfigs :
          resourceArmTrafficManagerProfileCreateUpdate([id |-> NoId, f |-> cfg], TRUE, "Create")

TrafficManagerProfile_Update ==
    /\ kind = "traffic_manager_profile" /\ Idle /\ d.id # NoId /\ d.f # Blank
    /\ \E v \in Vals :
          resourceArmTrafficManagerProfileCreateUpdate(
              [d EXCEPT !.f.traffic_routing_method = v], FALSE, "Update")

TrafficManagerProfile_Read ==
    /\ kind = "traffic_manager_profile" /\ Idle /\ d.id # NoId
    /\ resourceArmTrafficManagerProfileRead(d, remote, <<>>, "Read")

TrafficManagerProfile_Delete ==
    /\ kind = "traffic_manager_profile" /\ Idle /\ d.id # NoId
    /\ resourceArmTrafficManagerProfileDelete(d, "Delete")

(***************************************************************************)
(* Metric alert rule (src/unnamed/part_000)                                *)
(***************************************************************************)
OperatorTab == <<"GreaterThan", "LessThan", "GreaterThanOrEqual", "LessThanOrEqual">>
PeriodTab == <<"PT5M", "PT10M", "PT15M", "PT1H">>
AggregationTab == <<"Average", "Total", "Maximum", "Minimum">>
RESOURCE == "res1"
METRIC == "cpu"
HOOK == "http://hook"

\* no webhook_action block, or one
WebhookActions == {<<>>, <<[service_uri |-> HOOK]>>}

MetricAlertRuleConfigs ==
    {[name |-> n, resource_group_name |-> RG, resource_id |-> RESOURCE,
      metric_name |-> METRIC, operator |-> OperatorTab[v], threshold |-> v,
      period |-> PeriodTab[v], aggregation |-> AggregationTab[v],
      webhook_action |-> w] : n \in Names, v \in Vals, w \in WebhookActions}

\* a faulty expand: the webhook actions are left out of the rule
expandAzureRmMetricThresholdAlertRule_NoActions(dd) ==
    [Condition |-> [DataSource |-> [ResourceURI |-> <<Get(dd, "resource_id")>>,
                                    MetricName |-> <<Get(dd, "metric_name")>>],
                    Operator |-> Get(dd, "operator"),
                    Threshold |-> <<GetInt(dd, "threshold")>>,
                    TimeAggregation |-> Get(dd, "aggregation"),
                    WindowSize |-> <<Get(dd, "period")>>],
     Actions |-> << <<>> >>]

\* the insights.AlertRule built from the fields: the threshold condition with its
\* metric data source, and the actions (no email_action block is configured)
expandAzureRmMetricThresholdAlertRule(dd) ==
    LET metricDataSource == [ResourceURI |-> <<Get(dd, "resource_id")>>,
                             MetricName |-> <<Get(dd, "metric_name")>>]
        thresholdRuleCondition ==
            [DataSource |-> metricDataSource,
             Operator |-> Get(dd, "operator"),
             Threshold |-> <<GetInt(dd, "threshold")>>,
             TimeAggregation |-> Get(dd, "aggregation"),
             WindowSize |-> <<Get(dd, "period")>>]
        webhook_actions == IF "webhook_action" \in DOMAIN dd.f
                           THEN dd.f["webhook_action"] ELSE <<>>
        actions == IF Len(webhook_actions) > 0
                   THEN <<[type |-> "RuleWebhookAction",
                           ServiceURI |-> <<webhook_actions[1].service_uri>>]>>
                   ELSE <<>>
    IN [Condition |-> thresholdRuleCondition, Actions |-> <<actions>>]

\* an alert rule as another client may have left it: no actions at all
AlertRuleWithoutActions ==
    [Condition |-> [DataSource |-> [ResourceURI |-> <<RESOURCE>>, MetricName |-> <<METRIC>>],
                    Operator |-> OperatorTab[1], Threshold |-> <<1>>,
                    TimeAggregation |-> AggregationTab[1], WindowSize |-> <<PeriodTab[1]>>],
     Actions |-> <<>>]

\* the webhook_action blocks of the rule's actions (lines 272-311)
FlattenWebhookActions(actions) ==
    [i \in DOMAIN actions |-> [service_uri |-> actions[i].ServiceURI[1]]]

resourceArmMetricAlertRuleRead(dd, rem, log, op) ==
    LET id == parseAzureResourceID(dd.id)
        name == id.Path["alertrules"]
        resourceGroup == id.ResourceGroup
        target == AlertRuleId(resourceGroup, name)
    IN IF ~id.ok THEN Ret(op, dd, rem, log, "parse")
       ELSE \E c \in GetFaults :
            LET resp == RemoteGet(rem, target, c)
                log1 == Append(log, Call("Get", "read", "StopContext", target, resp))
            IN IF resp.err
               THEN IF ResponseWasNotFound(resp)
                    THEN Ret(op, [dd EXCEPT !.id = NoId], rem, log1, "nil")
                    ELSE Ret(op, dd, rem, log1, "error")
               ELSE LET alertRule == resp.val
                        thresholdRuleCondition == alertRule.Condition
                        metricDataSource == thresholdRuleCondition.DataSource
                    IN \* *alertRule.Actions is read without a nil check (line 275)
                       IF alertRule.Actions = <<>> THEN Ret(op, dd, rem, log1, "panic")
                       ELSE Ret(op, [dd EXCEPT !.f =
                                       [name |-> name,
                                        resource_group_name |-> resourceGroup,
                                        operator |-> thresholdRuleCondition.Operator,
                                        threshold |-> thresholdRuleCondition.Threshold[1],
                                        period |-> thresholdRuleCondition.WindowSize[1],
                                        aggregation |-> thresholdRuleCondition.TimeAggregation,
                                        resource_id |-> metricDataSource.ResourceURI[1],
                                        metric_name |-> metricDataSource.MetricName[1],
                                        webhook_action |->
                                            FlattenWebhookActions(alertRule.Actions[1])]],
                                rem, log1, "nil")

\* the write call, the re-read and what follows them (lines 184-216)
MetricAlertRuleWrite(dd, isNew, op, target, log1) ==
    \E c2 \in WriteFaults :
       LET w == RemotePut(remote, target, expandAzureRmMetricThresholdAlertRule(dd), c2)
           log2 == Append(log1, Call("CreateOrUpdate", "write",
                                     TimeoutForCreateUpdate(isNew), target, w.resp))
       IN IF w.resp.err THEN Ret(op, dd, w.rem, log2, "error")
          ELSE \E c3 \in GetFaults :
               LET read == RemoteGet(w.rem, target, c3)
                   log3 == Append(log2, Call("Get", "reread", "StopContext", target, read))
               IN IF read.err THEN Ret(op, dd, w.rem, log3, "error")
                  ELSE IF read.id = NoId THEN Ret(op, dd, w.rem, log3, "error")
                  ELSE resourceArmMetricAlertRuleRead(
                           [dd EXCEPT !.id = read.id], w.rem, log3, op)

resourceArmMetricAlertRuleCreateUpdate(dd, isNew, op) ==
    LET name == Get(dd, "name")
        resourceGroup == Get(dd, "resource_group_name")
        target == AlertRuleId(resourceGroup, name)
    IN IF isNew
       THEN \E c1 \in GetFaults :
            LET resp == RemoteGet(remote, target, c1)
                log1 == <<Call("Get", "precheck", "StopContext", target, resp)>>
            IN IF resp.err /\ ~ResponseWasNotFound(resp)
               THEN Ret(op, dd, remote, log1, "error")
               ELSE IF resp.id # NoId
               THEN Ret(op, dd, remote, log1, "import")
               ELSE MetricAlertRuleWrite(dd, isNew, op, target, log1)
       ELSE MetricAlertRuleWrite(dd, isNew, op, target, <<>>)

resourceArmMetricAlertRuleDelete(dd, op) ==
    LET id == parseAzureResourceID(dd.id)
        name == id.Path["alertrules"]
        resourceGroup == id.ResourceGroup
        target == AlertRuleId(resourceGroup, name)
    IN IF ~id.ok THEN Ret(op, dd, remote, <<>>, "parse")
       ELSE \E c \in DeleteFaults :
            LET x == RemoteDelete(remote, target, c)
                log1 == <<Call("Delete", "delete", "StopContext", target, x.resp)>>
            IN IF x.resp.err
               THEN IF ResponseWasNotFound(x.resp)
                    THEN Ret(op, dd, x.rem, log1, "nil")
                    ELSE Ret(op, dd, x.rem, log1, "error")
               ELSE Ret(op, dd, x.rem, log1, "nil")

MetricAlertRule_Create ==
    /\ kind = "metric_alertrule" /\ Idle /\ d.id = NoId
    /\ \E cfg \in MetricAlertRuleConfigs :
          resourceArmMetricAlertRuleCreateUpdate([id |-> NoId, f |-> cfg], TRUE, "Create")

MetricAlertRule_Update ==
    /\ kind = "metric_alertrule" /\ Idle /\ d.id # NoId /\ d.f # Blank
    /\ \E v \in Vals :
          resourceArmMetricAlertRuleCreateUpdate([d EXCEPT !.f.threshold = v], FALSE, "Update")

MetricAlertRule_Read ==
    /\ kind = "metric_alertrule" /\ Idle /\ d.id # NoId
    /\ resourceArmMetricAlertRuleRead(d, remote, <<>>, "Read")

MetricAlertRule_Delete ==
    /\ kind = "metric_alertrule" /\ Idle /\ d.id # NoId
    /\ resourceArmMetricAlertRuleDelete(d, "Delete")

(***************************************************************************)
(* Data lake store file (src/unnamed/part_001, lines 20-179)               *)
(***************************************************************************)
LocalFiles == {"local1", "missing"}

DataLakeStoreFileConfigs ==
    [account_name : {ACCOUNT}, remote_file_path : Names, local_file_path : LocalFiles]

\* the host without the ".suffix", and the path; the only error is that of
\* url.Parse (lines 164-167)
parseDataLakeStoreFileId(input, suffix) ==
    [ok |-> \A i \in 1..Len(input) : input[i] # BadUri[1],
     storageAccountName |-> IF Len(input) >= 1 THEN input[1] ELSE "",
     filePath |-> IF Len(input) >= 3 /\ input[2] = suffix THEN input[3] ELSE ""]

resourceArmDataLakeStoreFileRead(dd, rem, log, op) ==
    LET id == parseDataLakeStoreFileId(dd.id, AdlsFileSystemDNSSuffix)
        target == DataLakeStoreFileId(id.storageAccountName, AdlsFileSystemDNSSuffix,
                                      id.filePath)
    IN IF ~id.ok THEN Ret(op, dd, rem, log, "parse")
       ELSE \E c \in CreateFaults :
          LET resp == RemoteGet(rem, target, c)
              log1 == Append(log, Call("GetFileStatus", "read", "StopContext", target, resp))
          IN IF resp.err
             THEN IF ResponseWasNotFound(resp)
                  THEN Ret(op, [dd EXCEPT !.id = NoId], rem, log1, "nil")
                  ELSE Ret(op, dd, rem, log1, "error")
             ELSE Ret(op, [dd EXCEPT !.f = [account_name |-> id.storageAccountName,
                                            remote_file_path |-> id.filePath,
                                            local_file_path |-> Get(dd, "local_file_path")]],
                      rem, log1, "nil")

\* no existence check is made (it is commented out, lines 67-80)
resourceArmDataLakeStoreFileCreate(dd, op) ==
    LET accountName == Get(dd, "account_name")
        remoteFilePath == Get(dd, "remote_file_path")
        localFilePath == Get(dd, "local_file_path")
        target == DataLakeStoreFileId(accountName, AdlsFileSystemDNSSuffix, remoteFilePath)
    IN IF localFilePath = "missing" THEN Ret(op, dd, remote, <<>>, "error")
       ELSE \E c \in CreateFaults :
            LET w == RemoteCreateNoOverwrite(remote, target, 1, c)
                log1 == <<Call("Create", "write", "TimeoutCreate", target, w.resp)>>
            IN IF w.resp.err THEN Ret(op, dd, w.rem, log1, "error")
               ELSE resourceArmDataLakeStoreFileRead(
                        [dd EXCEPT !.id = DataLakeStoreFileId(accountName,
                                                AdlsFileSystemDNSSuffix, remoteFilePath)],
                        w.rem, log1, op)

resourceArmDataLakeStoreFileDelete(dd, op) ==
    LET id == parseDataLakeStoreFileId(dd.id, AdlsFileSystemDNSSuffix)
        target == DataLakeStoreFileId(id.storageAccountName, AdlsFileSystemDNSSuffix,
                                      id.filePath)
    IN IF ~id.ok THEN Ret(op, dd, remote, <<>>, "parse")
       ELSE \E c \in DeleteFaults :
          LET x == RemoteDelete(remote, target, c)
              log1 == <<Call("Delete", "delete", "TimeoutDelete", target, x.resp)>>
          IN IF x.resp.err /\ ~ResponseWasNotFound(x.resp)
             THEN Ret(op, dd, x.rem, log1, "error")
             ELSE Ret(op, dd, x.rem, log1, "nil")

DataLakeStoreFile_Create ==
    /\ kind = "data_lake_store_file" /\ Idle /\ d.id = NoId
    /\ \E cfg \in DataLakeStoreFileConfigs :
          resourceArmDataLakeStoreFileCreate([id |-> NoId, f |-> cfg], "Create")

DataLakeStoreFile_Read ==
    /\ kind = "data_lake_store_file" /\ Idle /\ d.id # NoId
    /\ resourceArmDataLakeStoreFileRead(d, remote, <<>>, "Read")

DataLakeStoreFile_Delete ==
    /\ kind = "data_lake_store_file" /\ Idle /\ d.id # NoId
    /\ resourceArmDataLakeStoreFileDelete(d, "Delete")

(***************************************************************************)
(* Key vault key (src/unnamed/part_003)                                    *)
(***************************************************************************)
KeyVaultKeyConfigs == [name : Names, vault_uri : {VAULT}, key_opts : Vals]

\* azurerm/key_vault_child.go: <vault uri>/<type>/<name>/<version>; anything else
\* is a parse error
parseKeyVaultChildID(id) ==
    [ok |-> Len(id) = 4,
     KeyVaultBaseUrl |-> IF Len(id) = 4 THEN id[1] ELSE "",
     Name |-> IF Len(id) = 4 THEN id[3] ELSE "",
     Version |-> IF Len(id) = 4 THEN id[4] ELSE ""]

\* GetKey with version "": the latest version of the key
LatestKey(keyVaultBaseUrl, name) == KeyId(keyVaultBaseUrl, name, VERSION)

resourceArmKeyVaultKeyRead(dd, rem, log, op) ==
    LET id == parseKeyVaultChildID(dd.id)
        target == LatestKey(id.KeyVaultBaseUrl, id.Name)
    IN IF ~id.ok THEN Ret(op, dd, rem, log, "parse")
       ELSE \E c \in GetFaults :
            LET resp == RemoteGet(rem, target, c)
                log1 == Append(log, Call("GetKey", "read", "StopContext", target, resp))
            IN IF resp.err
               THEN IF ResponseWasNotFound(resp)
                    THEN Ret(op, [dd EXCEPT !.id = NoId], rem, log1, "nil")
                    ELSE Ret(op, dd, rem, log1, "error")
               ELSE Ret(op, [dd EXCEPT !.f = [name |-> id.Name,
                                              vault_uri |-> id.KeyVaultBaseUrl,
                                              key_opts |-> IF resp.id # NoId THEN resp.val
                                                           ELSE GetInt(dd, "key_opts")]],
                        rem, log1, "nil")

resourceArmKeyVaultKeyCreate(dd, op) ==
    LET name == Get(dd, "name")
        keyVaultBaseUrl == Get(dd, "vault_uri")
        target == LatestKey(keyVaultBaseUrl, name)
    IN \E c1 \in GetFaults :
          LET resp == RemoteGet(remote, target, c1)
              log1 == <<Call("GetKey", "precheck", "StopContext", target, resp)>>
          IN IF resp.err /\ ~ResponseWasNotFound(resp)
             THEN Ret(op, dd, remote, log1, "error")
             ELSE IF resp.id # NoId
             THEN Ret(op, dd, remote, log1, "import")
             ELSE \E c2 \in CreateFaults :
                  LET w == RemotePut(remote, target, GetInt(dd, "key_opts"), c2)
                      log2 == Append(log1, Call("CreateKey", "write", "TimeoutCreate",
                                                target, w.resp))
                  IN IF w.resp.err THEN Ret(op, dd, w.rem, log2, "error")
                     ELSE \E c3 \in GetFaults :
                          LET read == RemoteGet(w.rem, target, c3)
                              log3 == Append(log2, Call("GetKey", "reread", "StopContext",
                                                        target, read))
                          IN IF read.err THEN Ret(op, dd, w.rem, log3, "error")
                             ELSE IF read.id = NoId THEN Ret(op, dd, w.rem, log3, "panic")
                             ELSE resourceArmKeyVaultKeyRead(
                                      [dd EXCEPT !.id = read.id], w.rem, log3, op)

\* a faulty Update: the update call is made whatever the parse says
resourceArmKeyVaultKeyUpdate_NoParseCheck(dd, op) ==
    LET id == parseKeyVaultChildID(dd.id)
        target == KeyId(id.KeyVaultBaseUrl, id.Name, id.Version)
    IN \E c \in CreateFaults :
          LET w == RemoteUpdate(remote, target, GetInt(dd, "key_opts"), c)
              log1 == <<Call("UpdateKey", "write", "TimeoutUpdate", target, w.resp)>>
          IN IF w.resp.err THEN Ret(op, dd, w.rem, log1, "error")
             ELSE resourceArmKeyVaultKeyRead(dd, w.rem, log1, op)

resourceArmKeyVaultKeyUpdate(dd, op) ==
    LET id == parseKeyVaultChildID(dd.id)
        target == KeyId(id.KeyVaultBaseUrl, id.Name, id.Version)
    IN IF ~id.ok THEN Ret(op, dd, remote, <<>>, "parse")
       ELSE \E c \in CreateFaults :
            LET w == RemoteUpdate(remote, target, GetInt(dd, "key_opts"), c)
                log1 == <<Call("UpdateKey", "write", "TimeoutUpdate", target, w.resp)>>
            IN IF w.resp.err THEN Ret(op, dd, w.rem, log1, "error")
               ELSE resourceArmKeyVaultKeyRead(dd, w.rem, log1, op)

resourceArmKeyVaultKeyDelete(dd, op) ==
    LET id == parseKeyVaultChildID(dd.id)
        target == LatestKey(id.KeyVaultBaseUrl, id.Name)
    IN IF ~id.ok THEN Ret(op, dd, remote, <<>>, "parse")
       ELSE \E c \in DeleteFaults :
            LET x == RemoteDelete(remote, target, c)
                log1 == <<Call("DeleteKey", "delete", "TimeoutDelete", target, x.resp)>>
            IN IF x.resp.err THEN Ret(op, dd, x.rem, log1, "error")
               ELSE Ret(op, dd, x.rem, log1, "nil")

KeyVaultKey_Create ==
    /\ kind = "key_vault_key" /\ Idle /\ d.id = NoId
    /\ \E cfg \in KeyVaultKeyConfigs :
          resourceArmKeyVaultKeyCreate([id |-> NoId, f |-> cfg], "Create")

\* the resource data an Update may be handed: the stored fields with a new
\* key_opts, or after an import the configuration as a whole
KeyVaultKeyPlanned(dd) ==
    IF dd.f = Blank
    THEN {[id |-> dd.id, f |-> cfg] : cfg \in KeyVaultKeyConfigs}
    ELSE {[dd EXCEPT !.f.key_opts = v] : v \in Vals}

KeyVaultKey_Update ==
    /\ kind = "key_vault_key" /\ Idle /\ d.id # NoId
    /\ \E dd \in KeyVaultKeyPlanned(d) :
          resourceArmKeyVaultKeyUpdate(dd, "Update")

KeyVaultKey_Read ==
    /\ kind = "key_vault_key" /\ Idle /\ d.id # NoId
    /\ resourceArmKeyVaultKeyRead(d, remote, <<>>, "Read")

KeyVaultKey_Delete ==
    /\ kind = "key_vault_key" /\ Idle /\ d.id # NoId
    /\ resourceArmKeyVaultKeyDelete(d, "Delete")

(***************************************************************************)
(* Log analytics solution (src/unnamed/part_002)                           *)
(***************************************************************************)
LogAnalyticsSolutionConfigs ==
    [solution_name : Names, workspace_name : {WORKSPACE}, resource_group_name : {RG},
     location : Vals]

resourceArmLogAnalyticsSolutionRead(dd, rem, log, op) ==
    LET id == parseAzureResourceID(dd.id)
        resGroup == id.ResourceGroup
        name == id.Path["solutions"]
        target == SolutionId(resGroup, name)
        parts == SolutionNameParts(name)
    IN IF ~id.ok THEN Ret(op, dd, rem, log, "parse")
       ELSE \E c \in GetFaults :
            LET resp == RemoteGet(rem, target, c)
                log1 == Append(log, Call("Get", "read", "StopContext", target, resp))
            IN IF resp.err
               THEN IF ResponseWasNotFound(resp)
                    THEN Ret(op, [dd EXCEPT !.id = NoId], rem, log1, "nil")
                    ELSE Ret(op, dd, rem, log1, "error")
               ELSE IF Len(parts) # 2 THEN Ret(op, dd, rem, log1, "error")
               ELSE Ret(op, [dd EXCEPT !.f = [solution_name |-> parts[1],
                                              workspace_name |-> parts[2],
                                              resource_group_name |-> resGroup,
                                              location |-> resp.val]],
                        rem, log1, "nil")

\* the re-read and what follows it (lines 142-153)
LogAnalyticsSolutionReread(dd, rem, log2, op, target) ==
    \E c3 \in GetFaults :
       LET solution == RemoteGet(rem, target, c3)
           log3 == Append(log2, Call("Get", "reread", "StopContext", target, solution))
       IN IF solution.err THEN Ret(op, dd, rem, log3, "error")
          ELSE IF solution.id = NoId THEN Ret(op, dd, rem, log3, "error")
          ELSE resourceArmLogAnalyticsSolutionRead(
                   [dd EXCEPT !.id = solution.id], rem, log3, op)

\* the write call: an error is returned unless the response's status is 201;
\* without a response the status cannot be read (lines 129-140)
LogAnalyticsSolutionWrite(dd, isNew, op, target, log1) ==
    \E c2 \in WriteFaults :
       LET w == RemotePut(remote, target, GetInt(dd, "location"), c2)
           log2 == Append(log1, Call("CreateOrUpdate", "write",
                                     TimeoutForCreateUpdate(isNew), target, w.resp))
       IN IF w.resp.err /\ w.resp.status = 0 THEN Ret(op, dd, w.rem, log2, "panic")
          ELSE IF w.resp.err /\ w.resp.status # 201 THEN Ret(op, dd, w.rem, log2, "error")
          ELSE LogAnalyticsSolutionReread(dd, w.rem, log2, op, target)

resourceArmLogAnalyticsSolutionCreateUpdate(dd, isNew, op) ==
    LET solutionName == Get(dd, "solution_name")
        workspaceName == Get(dd, "workspace_name")
        name == SolutionFullName(solutionName, workspaceName)
        resGroup == Get(dd, "resource_group_name")
        target == SolutionId(resGroup, name)
    IN IF isNew
       THEN \E c1 \in GetFaults :
            LET resp == RemoteGet(remote, target, c1)
                log1 == <<Call("Get", "precheck", "StopContext", target, resp)>>
            IN IF resp.err /\ ~ResponseWasNotFound(resp)
               THEN Ret(op, dd, remote, log1, "error")
               ELSE IF resp.id # NoId
               THEN Ret(op, dd, remote, log1, "import")
               ELSE LogAnalyticsSolutionWrite(dd, isNew, op, target, log1)
       ELSE LogAnalyticsSolutionWrite(dd, isNew, op, target, <<>>)

resourceArmLogAnalyticsSolutionDelete(dd, op) ==
    LET id == parseAzureResourceID(dd.id)
        resGroup == id.ResourceGroup
        name == id.Path["solutions"]
        target == SolutionId(resGroup, name)
    IN IF ~id.ok THEN Ret(op, dd, remote, <<>>, "parse")
       ELSE \E c \in DeleteFaults :
            LET x == RemoteDelete(remote, target, c)
                log1 == <<Call("Delete", "delete", "StopContext", target, x.resp)>>
            IN IF x.resp.err THEN Ret(op, dd, x.rem, log1, "error")
               ELSE \E c2 \in WaitFaults :
                    LET w == RemoteWait(c2)
                        log2 == Append(log1, Call("WaitForCompletionRef", "wait",
                                                  "TimeoutDelete", target, w))
                    IN IF w.err /\ ~ResponseWasNotFound(w)
                       THEN Ret(op, dd, x.rem, log2, "error")
                       ELSE Ret(op, dd, x.rem, log2, "nil")

LogAnalyticsSolution_Create ==
    /\ kind = "log_analytics_solution" /\ Idle /\ d.id = NoId
    /\ \E cfg \in LogAnalyticsSolutionConfigs :
          resourceArmLogAnalyticsSolutionCreateUpdate([id |-> NoId, f |-> cfg], TRUE, "Create")

LogAnalyticsSolution_Update ==
    /\ kind = "log_analytics_solution" /\ Idle /\ d.id # NoId /\ d.f # Blank
    /\ \E v \in Vals :
          resourceArmLogAnalyticsSolutionCreateUpdate(
              [d EXCEPT !.f.location = v], FALSE, "Update")

LogAnalyticsSolution_Read ==
    /\ kind = "log_analytics_solution" /\ Idle /\ d.id # NoId
    /\ resourceArmLogAnalyticsSolutionRead(d, remote, <<>>, "Read")

LogAnalyticsSolution_Delete ==
    /\ kind = "log_analytics_solution" /\ Idle /\ d.id # NoId
    /\ resourceArmLogAnalyticsSolutionDelete(d, "Delete")

(***************************************************************************)
(* Role assignment (src/unnamed/part_001, lines 198-398)                   *)
(***************************************************************************)
ROLEDEF == "rd1"
ROLEDEF2 == "rd2"
RoleDefinitionIds == {ROLEDEF, ROLEDEF2}
ROLENAME == "Reader"

\* role_definition_id and role_definition_name conflict with each other
RoleAssignmentConfigs ==
    {cfg \in [name : Names \cup {""}, scope : {SCOPE}, role_definition_id : {"", ROLEDEF},
              role_definition_name : {"", ROLENAME}, principal_id : Vals] :
        ~(cfg.role_definition_id # "" /\ cfg.role_definition_name # "")}

\* what the role definition list returns for the name filter: the call fails,
\* or it returns the IDs of the definitions that match
ListFaults == {"none", "e500"}
RoleDefinitionLists ==
    {<<>>} \cup {<<r>> : r \in RoleDefinitionIds}
           \cup {p \in RoleDefinitionIds \X RoleDefinitionIds : p[1] # p[2]}

\* the List call with the definitions it returned, the create call with the
\* properties it sent
ListCall(resp, values) ==
    [api |-> "List", role |-> "list", ctx |-> "StopContext", target |-> <<"roleDefinitions">>,
     status |-> resp.status, err |-> resp.err, id |-> resp.id, values |-> values]

CreateCall(target, resp, properties) ==
    [api |-> "Create", role |-> "write", ctx |-> "TimeoutCreate", target |-> target,
     status |-> resp.status, err |-> resp.err, id |-> resp.id, properties |-> properties]

\* a Read that reports a resource that is gone as an error
RoleAssignmentRead_NotFoundIsError(dd, rem, log, op) ==
    \E c \in CreateFaults :
       LET resp == RemoteGet(rem, dd.id, c)
           log1 == Append(log, Call("GetByID", "read", "StopContext", dd.id, resp))
       IN IF resp.err THEN Ret(op, dd, rem, log1, "error")
          ELSE Ret(op, dd, rem, log1, "nil")

resourceArmRoleAssignmentRead(dd, rem, log, op) ==
    LET target == dd.id
    IN \E c \in CreateFaults :
          LET resp == RemoteGet(rem, target, c)
              log1 == Append(log, Call("GetByID", "read", "StopContext", target, resp))
          IN IF resp.err
             THEN IF ResponseWasNotFound(resp)
                  THEN Ret(op, [dd EXCEPT !.id = NoId], rem, log1, "nil")
                  ELSE Ret(op, dd, rem, log1, "error")
             ELSE Ret(op, [dd EXCEPT !.f = [name |-> target[3], scope |-> target[1],
                                            role_definition_id |->
                                                resp.val.RoleDefinitionID,
                                            role_definition_name |->
                                                Get(dd, "role_definition_name"),
                                            principal_id |-> resp.val.PrincipalID]],
                      rem, log1, "nil")

\* resource.Retry is entered: the create call is attempted until it succeeds or
\* the Create timeout has elapsed (lines 309-312)
RoleAssignmentRetry(dd, name, log) ==
    /\ retry' = [active |-> TRUE, name |-> name, attempts |-> 0, dd |-> dd]
    /\ last' = [op |-> "Create", err |-> "running", calls |-> log]
    /\ UNCHANGED <<kind, d, remote, rt>>

\* the name: the given one after the existence check, else a generated UUID
\* (lines 280-300); u = "" stands for a failure to generate one
RoleAssignmentName(dd, log) ==
    LET name == Get(dd, "name")
        scope == Get(dd, "scope")
        target == RoleAssignmentId(scope, name)
    IN IF name # ""
       THEN \E c1 \in GetFaults :
            LET resp == RemoteGet(remote, target, c1)
                log1 == Append(log, Call("Get", "precheck", "StopContext", target, resp))
            IN IF resp.err /\ ~ResponseWasNotFound(resp)
               THEN Ret("Create", dd, remote, log1, "error")
               ELSE IF resp.id # NoId
               THEN Ret("Create", dd, remote, log1, "import")
               ELSE RoleAssignmentRetry(dd, name, log1)
       ELSE \E u \in {n \in Names : ~Exists(remote, RoleAssignmentId(scope, n))} \cup {""} :
               IF u = "" THEN Ret("Create", dd, remote, log, "error")
               ELSE RoleAssignmentRetry(dd, u, log)

\* a faulty lookup: the first of several matching definitions is taken
resourceArmRoleAssignmentCreate_FirstOfMany(dd) ==
    IF Get(dd, "role_definition_id") # ""
    THEN RoleAssignmentName(dd, <<>>)
    ELSE IF Get(dd, "role_definition_name") # ""
    THEN \E l \in ListFaults, values \in RoleDefinitionLists :
         LET resp == Resp(IF l = "e500" THEN 500 ELSE 200, l = "e500", NoId, 0)
             roleDefinitions == IF resp.err THEN <<>> ELSE values
             log1 == <<ListCall(resp, roleDefinitions)>>
         IN IF resp.err THEN Ret("Create", dd, remote, log1, "error")
            ELSE IF Len(roleDefinitions) = 0 THEN Ret("Create", dd, remote, log1, "error")
            ELSE RoleAssignmentName([dd EXCEPT !.f.role_definition_id = roleDefinitions[1]],
                                    log1)
    ELSE Ret("Create", dd, remote, <<>>, "error")

\* lines 251-308: the role definition is resolved first
resourceArmRoleAssignmentCreate(dd) ==
    IF Get(dd, "role_definition_id") # ""
    THEN RoleAssignmentName(dd, <<>>)
    ELSE IF Get(dd, "role_definition_name") # ""
    THEN \E l \in ListFaults, values \in RoleDefinitionLists :
         LET resp == Resp(IF l = "e500" THEN 500 ELSE 200, l = "e500", NoId, 0)
             roleDefinitions == IF resp.err THEN <<>> ELSE values
             log1 == <<ListCall(resp, roleDefinitions)>>
         IN IF resp.err THEN Ret("Create", dd, remote, log1, "error")
            ELSE IF Len(roleDefinitions) # 1 THEN Ret("Create", dd, remote, log1, "error")
            ELSE RoleAssignmentName([dd EXCEPT !.f.role_definition_id = roleDefinitions[1]],
                                    log1)
    ELSE Ret("Create", dd, remote, <<>>, "error")

\* a retry function that never reports success
RetryAlways(resp) == "retryable"

\* lines 388-398: an error of the create call is retryable, success ends the loop
retryRoleAssignmentsClient(resp) == IF resp.err THEN "retryable" ELSE "done"

\* the re-read and what follows it (lines 317-326)
RoleAssignmentReread(dd, rem, log, target) ==
    \E c3 \in GetFaults :
       LET read == RemoteGet(rem, target, c3)
           log3 == Append(log, Call("Get", "reread", "StopContext", target, read))
       IN IF read.err THEN Ret("Create", dd, rem, log3, "error")
          ELSE IF read.id = NoId THEN Ret("Create", dd, rem, log3, "error")
          ELSE resourceArmRoleAssignmentRead([dd EXCEPT !.id = read.id], rem, log3, "Create")

\* one pass of the retry loop
RoleAssignment_RetryAttempt ==
    /\ kind = "role_assignment" /\ retry.active /\ retry.attempts < MaxAttempts
    /\ \E c \in CreateFaults :
          LET dd == retry.dd
              target == RoleAssignmentId(Get(dd, "scope"), retry.name)
              properties == [RoleDefinitionID |-> Get(dd, "role_definition_id"),
                             PrincipalID |-> GetInt(dd, "principal_id")]
              w == RemotePut(remote, target, properties, c)
              log1 == Append(last.calls, CreateCall(target, w.resp, properties))
          IN IF retryRoleAssignmentsClient(w.resp) = "retryable"
             THEN /\ retry' = [retry EXCEPT !.attempts = @ + 1]
                  /\ remote' = w.rem
                  /\ last' = [last EXCEPT !.calls = log1]
                  /\ UNCHANGED <<kind, d, rt>>
             ELSE RoleAssignmentReread(dd, w.rem, log1, target)

\* the Create timeout elapses: resource.Retry returns the last error
RoleAssignment_RetryTimeout ==
    /\ kind = "role_assignment" /\ retry.active /\ retry.attempts >= 1
    /\ Ret("Create", retry.dd, remote, last.calls, "error")

resourceArmRoleAssignmentDelete(dd, op) ==
    LET scope == Get(dd, "scope")
        name == Get(dd, "name")
        target == RoleAssignmentId(scope, name)
    IN \E c \in DeleteFaults :
          LET x == RemoteDelete(remote, target, c)
              log1 == <<Call("Delete", "delete", "TimeoutDelete", target, x.resp)>>
          IN IF x.resp.err /\ ~ResponseWasNotFound(x.resp)
             THEN Ret(op, dd, x.rem, log1, "error")
             ELSE Ret(op, dd, x.rem, log1, "nil")

RoleAssignment_Create ==
    /\ kind = "role_assignment" /\ Idle /\ d.id = NoId
    /\ \E cfg \in RoleAssignmentConfigs :
          resourceArmRoleAssignmentCreate([id |-> NoId, f |-> cfg])

RoleAssignment_Read ==
    /\ kind = "role_assignment" /\ Idle /\ d.id # NoId
    /\ resourceArmRoleAssignmentRead(d, remote, <<>>, "Read")

RoleAssignment_Delete ==
    /\ kind = "role_assignment" /\ Idle /\ d.id # NoId
    /\ resourceArmRoleAssignmentDelete(d, "Delete")

(***************************************************************************)
(* The framework and the world around the adapter.                         *)
(***************************************************************************)
Env(op) == [op |-> op, err |-> "nil", calls |-> <<>>]

\* schema.ImportStatePassthrough: the given ID becomes the stored ID
ImportStatePassthrough ==
    /\ Idle /\ d.id = NoId
    /\ \E id \in RemoteIds \cup {BadId, BadUri} :
          /\ d' = [id |-> id, f |-> Blank]
          /\ last' = Env("Import")
          /\ UNCHANGED <<kind, remote, retry, rt>>

\* the state entry is dropped (after a destroy, or by hand); the remote stays
StateRemove ==
    /\ Idle /\ d.id # NoId
    /\ d' = [id |-> NoId, f |-> Blank]
    /\ last' = Env("StateRemove")
    /\ UNCHANGED <<kind, remote, retry, rt>>

\* somebody else creates, changes or deletes a remote resource
\* what another client may store in a remote resource
RemoteVals ==
    IF kind = "metric_alertrule"
    THEN {expandAzureRmMetricThresholdAlertRule([id |-> NoId, f |-> cfg]) :
             cfg \in MetricAlertRuleConfigs} \cup {AlertRuleWithoutActions}
    ELSE IF kind = "role_assignment"
    THEN [RoleDefinitionID : RoleDefinitionIds, PrincipalID : Vals]
    ELSE Vals

OtherActorWrite ==
    \E id \in RemoteIds, v \in RemoteVals :
       /\ Idle
       /\ IF remote[id].exists THEN remote[id].val # v ELSE TRUE
       /\ remote' = [remote EXCEPT ![id] = Stored(v)]
       /\ last' = Env("OtherActorWrite")
       /\ UNCHANGED <<kind, d, retry, rt>>

OtherActorDelete ==
    \E id \in RemoteIds :
       /\ Idle
       /\ remote[id].exists
       /\ remote' = [remote EXCEPT ![id] = Absent]
       /\ last' = Env("OtherActorDelete")
       /\ UNCHANGED <<kind, d, retry, rt>>

Init ==
    /\ kind \in Kinds
    /\ d = [id |-> NoId, f |-> Blank]
    /\ remote = [id \in RemoteIds |-> Absent]
    /\ last = Env("Init")
    /\ retry = NoRetry
    /\ rt = NoRecords

Next ==
    \/ DnsAaaaRecord_Create
    \/ DnsAaaaRecord_Update
    \/ DnsAaaaRecord_Read
    \/ DnsAaaaRecord_Delete
    \/ SchedulerJobCollection_Create
    \/ SchedulerJobCollection_Update
    \/ SchedulerJobCollection_Read
    \/ SchedulerJobCollection_Delete
    \/ EventHubConsumerGroup_Create
    \/ EventHubConsumerGroup_Update
    \/ EventHubConsumerGroup_Read
    \/ EventHubConsumerGroup_Delete
    \/ TrafficManagerProfile_Create
    \/ TrafficManagerProfile_Update
    \/ TrafficManagerProfile_Read
    \/ TrafficManagerProfile_Delete
    \/ MetricAlertRule_Create
    \/ MetricAlertRule_Update
    \/ MetricAlertRule_Read
    \/ MetricAlertRule_Delete
    \/ DataLakeStoreFile_Create
    \/ DataLakeStoreFile_Read
    \/ DataLakeStoreFile_Delete
    \/ KeyVaultKey_Create
    \/ KeyVaultKey_Update
    \/ KeyVaultKey_Read
    \/ KeyVaultKey_Delete
    \/ LogAnalyticsSolution_Create
    \/ LogAnalyticsSolution_Update
    \/ LogAnalyticsSolution_Read
    \/ LogAnalyticsSolution_Delete
    \/ RoleAssignment_Create
    \/ RoleAssignment_RetryAttempt
    \/ RoleAssignment_RetryTimeout
    \/ RoleAssignment_Read
    \/ RoleAssignment_Delete
    \/ ImportStatePassthrough
    \/ StateRemove
    \/ OtherActorWrite
    \/ OtherActorDelete

Spec == Init /\ [][Next]_vars

\* the retry loop runs on: a pending attempt is made, a pending timeout fires
FairSpec ==
    Spec /\ WF_vars(RoleAssignment_RetryAttempt) /\ WF_vars(RoleAssignment_RetryTimeout)

(***************************************************************************)
(* The AAAA records of a record set (src/unnamed/part_004, lines 176-203). *)
(* A remote record is its Ipv6Address, NilAddress when the pointer is nil. *)
(***************************************************************************)
NilAddress == "<nil>"
Addresses == {AddrTab[i] : i \in 1..MaxAddrs}

\* the remote lists: a nil list, or up to MaxRecords records
RemoteRecordLists ==
    {[isNil |-> TRUE, items |-> <<>>]} \cup
    {[isNil |-> FALSE, items |-> s] :
        s \in UNION {[1..n -> Addresses \cup {NilAddress}] : n \in 0..MaxRecords}}

RECURSIVE FlattenItems(_)
FlattenItems(items) ==
    IF items = <<>> THEN <<>>
    ELSE IF Head(items) # NilAddress
         THEN <<Head(items)>> \o FlattenItems(Tail(items))
         ELSE FlattenItems(Tail(items))

\* a flatten that loses the first record
FlattenDropsFirst(records) ==
    IF records.isNil \/ records.items = <<>> THEN <<>>
    ELSE FlattenItems(Tail(records.items))

flattenAzureRmDnsAaaaRecords(records) ==
    IF records.isNil THEN <<>> ELSE FlattenItems(records.items)

\* schema.Set with schema.HashString: equal strings are one element
SchemaSet(list) == {list[i] : i \in DOMAIN list}

\* (*schema.Set).List(): the elements, in the order of their hash codes
SetLists(s) ==
    {l \in [1..Cardinality(s) -> s] : \A i, j \in 1..Cardinality(s) : l[i] = l[j] => i = j}

expandAzureRmDnsAaaaRecords(recordStrings) ==
    [i \in DOMAIN recordStrings |-> [Ipv6Address |-> recordStrings[i]]]

\* Read: d.Set("records", flattenAzureRmDnsAaaaRecords(resp.AaaaRecords))
Records_Flatten ==
    /\ rt.stage = "remote"
    /\ rt' = [stage |-> "flat", records |-> rt.records,
              results |-> flattenAzureRmDnsAaaaRecords(rt.records)]
    /\ UNCHANGED <<kind, d, remote, last, retry>>

Records_Set ==
    /\ rt.stage = "flat"
    /\ rt' = [stage |-> "set", records |-> rt.records, set |-> SchemaSet(rt.results)]
    /\ UNCHANGED <<kind, d, remote, last, retry>>

\* CreateOrUpdate: records, err := expandAzureRmDnsAaaaRecords(d)
Records_Expand ==
    /\ rt.stage = "set"
    /\ \E l \in SetLists(rt.set) :
          rt' = [stage |-> "expanded", records |-> rt.records,
                 expanded |-> expandAzureRmDnsAaaaRecords(l)]
    /\ UNCHANGED <<kind, d, remote, last, retry>>

InitRecords ==
    /\ kind = "dns_aaaa_record"
    /\ d = [id |-> NoId, f |-> Blank]
    /\ remote = [id \in RemoteIds |-> Absent]
    /\ last = Env("Init")
    /\ retry = NoRetry
    /\ \E r \in RemoteRecordLists : rt = [stage |-> "remote", records |-> r]

NextRecords ==
    \/ Records_Flatten
    \/ Records_Set
    \/ Records_Expand

SpecRecords == InitRecords /\ [][NextRecords]_vars

(***************************************************************************)
(* The dns_config and monitor_config blocks of a traffic manager profile   *)
(* (src/azurerm/resource_arm_traffic_manager_profile.go, lines 260-308).   *)
(* A pointer field of a remote struct is <<>> when it is nil and <<v>>     *)
(* when it points to v.                                                    *)
(***************************************************************************)
MaxPorts == 2        \* distinct monitor ports

Nil == <<>>
Ptr(v) == <<v>>

MonitorProtocols == {"HTTP", "TCP"}
MonitorPaths == {"", "/"}

RemoteDNSConfigs ==
    [RelativeName : {Nil} \cup {Ptr(n) : n \in Names},
     TTL : {Nil} \cup {Ptr(v) : v \in Vals}]

RemoteMonitorConfigs ==
    [Protocol : MonitorProtocols,
     Port : {Nil} \cup {Ptr(p) : p \in 1..MaxPorts},
     Path : {Nil} \cup {Ptr(p) : p \in MonitorPaths}]

\* *dns.RelativeName and *dns.TTL are read without a nil check
flattenAzureRMTrafficManagerProfileDNSConfig(dns) ==
    IF dns.RelativeName = Nil \/ dns.TTL = Nil
    THEN [panic |-> TRUE, list |-> <<>>]
    ELSE [panic |-> FALSE,
          list |-> <<[relative_name |-> dns.RelativeName[1], ttl |-> dns.TTL[1]]>>]

\* *cfg.Port is read without a nil check; "path" is set only for a non-nil Path
flattenAzureRMTrafficManagerProfileMonitorConfig(cfg) ==
    IF cfg.Port = Nil
    THEN [panic |-> TRUE, list |-> <<>>]
    ELSE [panic |-> FALSE,
          list |-> <<IF cfg.Path # Nil
                     THEN [protocol |-> cfg.Protocol, port |-> cfg.Port[1],
                           path |-> cfg.Path[1]]
                     ELSE [protocol |-> cfg.Protocol, port |-> cfg.Port[1]]>>]

\* d.Get of a block that d.Set stored: every field of the block's schema, with
\* the zero value where the stored map has no entry
MonitorConfigBlock(m) ==
    [protocol |-> m.protocol, port |-> m.port,
     path |-> IF "path" \in DOMAIN m THEN m.path ELSE ""]

expandArmTrafficManagerMonitorConfig(monitorSets) ==
    LET monitor == MonitorConfigBlock(monitorSets[1])
    IN [Protocol |-> monitor.protocol, Port |-> Ptr(monitor.port),
        Path |-> Ptr(monitor.path)]

expandArmTrafficManagerDNSConfig(dnsSets) ==
    LET dns == dnsSets[1]
    IN [RelativeName |-> Ptr(dns.relative_name), TTL |-> Ptr(dns.ttl)]

\* Read, lines 207-214: both blocks are flattened and stored
Profile_Flatten ==
    /\ rt.stage = "profile"
    /\ LET dnsFlat == flattenAzureRMTrafficManagerProfileDNSConfig(rt.dns)
           monitorFlat == flattenAzureRMTrafficManagerProfileMonitorConfig(rt.monitor)
       IN rt' = IF dnsFlat.panic \/ monitorFlat.panic
                THEN [stage |-> "profile_panic", dns |-> rt.dns, monitor |-> rt.monitor]
                ELSE [stage |-> "profile_flat", dns |-> rt.dns, monitor |-> rt.monitor,
                      dns_config |-> dnsFlat.list, monitor_config |-> monitorFlat.list]
    /\ UNCHANGED <<kind, d, remote, last, retry>>

\* getArmTrafficManagerProfileProperties, lines 244-258: both blocks are expanded
Profile_Expand ==
    /\ rt.stage = "profile_flat"
    /\ rt' = [stage |-> "profile_expanded", dns |-> rt.dns, monitor |-> rt.monitor,
              DNSConfig |-> expandArmTrafficManagerDNSConfig(rt.dns_config),
              MonitorConfig |-> expandArmTrafficManagerMonitorConfig(rt.monitor_config)]
    /\ UNCHANGED <<kind, d, remote, last, retry>>

InitProfile ==
    /\ kind = "traffic_manager_profile"
    /\ d = [id |-> NoId, f |-> Blank]
    /\ remote = [id \in RemoteIds |-> Absent]
    /\ last = Env("Init")
    /\ retry = NoRetry
    /\ \E dns \in RemoteDNSConfigs, monitor \in RemoteMonitorConfigs :
          rt = [stage |-> "profile", dns |-> dns, monitor |-> monitor]

NextProfile ==
    \/ Profile_Flatten
    \/ Profile_Expand

SpecProfile == InitProfile /\ [][NextProfile]_vars

(***************************************************************************)
(* Tag validation of the metric alert rule.  A tag key is the sequence of   *)
(* its characters, so that the comparison works on the characters.         *)
(***************************************************************************)
MaxTagKeys == 6      \* tag keys a map is drawn from

TagKeyTab ==
    << <<"$", "t", "y", "p", "e">>, <<"$", "T", "Y", "P", "E">>, <<"$", "T", "y", "p", "e">>,
       <<"t", "y", "p", "e">>, <<"$", "t", "y", "p">>, <<"e", "n", "v">>,
       <<"$", "t", "y", "p", "e", "s">>, <<"$", "t", "y", "p", "E">> >>

TagKeys == {TagKeyTab[i] : i \in 1..MaxTagKeys}
TagMaps == UNION {[S -> {"v"}] : S \in SUBSET TagKeys}

\* the upper-case letters of the keys and their lower-case forms
UpperTab == <<"T", "Y", "P", "E", "N", "V", "S">>
LowerTab == <<"t", "y", "p", "e", "n", "v", "s">>

\* simple case folding of one character
Fold(c) ==
    IF \E i \in DOMAIN UpperTab : UpperTab[i] = c
    THEN LowerTab[CHOOSE i \in DOMAIN UpperTab : UpperTab[i] = c]
    ELSE c

\* a faulty comparison: the characters are compared as they are
EqualFold_CaseSensitive(s, t) == s = t

\* strings.EqualFold: equal under case folding, character by character
EqualFold(s, t) ==
    /\ Len(s) = Len(t)
    /\ \A i \in 1..Len(s) : Fold(s[i]) = Fold(t[i])

\* what validateAzureRMTags may have reported before the reserved-key loop
AzureRMTagErrors == {<<>>, <<[err |-> "tags", key |-> <<>>]>>}

\* the orders in which a range loop may visit the keys of a map
KeyOrders(S) == {o \in [1..Cardinality(S) -> S] : \A k \in S : \E i \in DOMAIN o : o[i] = k}

\* validateMetricAlertRuleTags: the errors returned when the keys are visited
\* in the order o and the general validation returned es
validateMetricAlertRuleTags(tagsMap, es, o) ==
    LET reserved == SelectSeq(o, LAMBDA k : EqualFold(k, TagKeyTab[1]))
    IN es \o [i \in DOMAIN reserved |-> [err |-> "not allowed as tag name", key |-> reserved[i]]]

Tags_Validate ==
    /\ rt.stage = "tags"
    /\ \E o \in KeyOrders(DOMAIN rt.tags) :
          rt' = [stage |-> "tags_validated", tags |-> rt.tags, base |-> rt.base,
                 es |-> validateMetricAlertRuleTags(rt.tags, rt.base, o)]
    /\ UNCHANGED <<kind, d, remote, last, retry>>

InitTags ==
    /\ kind = "metric_alertrule"
    /\ d = [id |-> NoId, f |-> Blank]
    /\ remote = [id \in RemoteIds |-> Absent]
    /\ last = Env("Init")
    /\ retry = NoRetry
    /\ \E tags \in TagMaps, es \in AzureRMTagErrors :
          rt = [stage |-> "tags", tags |-> tags, base |-> es]

NextTags == Tags_Validate

SpecTags == InitTags /\ [][NextTags]_vars

(***************************************************************************)
(* The tags and the webhook properties a metric alert rule Read stores     *)
(* (src/unnamed/part_000, lines 291-319).  filterTags and                  *)
(* flattenAndSetTags are not part of the sources at hand; they are taken   *)
(* from the words at their call: "Return a new tag map filtered by the     *)
(* specified tag names", and the tags are stored as they are given.        *)
(***************************************************************************)
PropertyKeys == {TagKeyTab[1], TagKeyTab[2], TagKeyTab[6]}
PropertyMaps == {Nil} \cup {Ptr(m) : m \in UNION {[S -> {"v"}] : S \in SUBSET PropertyKeys}}

\* the map m without the keys outside S
Restrict(m, S) == [k \in S |-> m[k]]

filterTags(tagsMap, tagNames) == Restrict(tagsMap, DOMAIN tagsMap \ tagNames)

flattenAndSetTags(tagsMap) == tagsMap

\* a faulty copy: every property is kept
WebhookProperties_Unfiltered(props) ==
    IF props = Nil THEN <<>> ELSE props[1]

\* the properties of one webhook action as Read stores them (lines 296-303)
WebhookProperties(props) ==
    IF props = Nil
    THEN <<>>
    ELSE Restrict(props[1], {k \in DOMAIN props[1] : k # TagKeyTab[1]})

AlertRule_ReadTags ==
    /\ rt.stage = "alert_remote"
    /\ rt' = [stage |-> "alert_read", Tags |-> rt.Tags, Properties |-> rt.Properties,
              tags |-> flattenAndSetTags(filterTags(rt.Tags, {TagKeyTab[1]})),
              webhook_action |-> <<[properties |-> WebhookProperties(rt.Properties)]>>]
    /\ UNCHANGED <<kind, d, remote, last, retry>>

InitAlertRead ==
    /\ kind = "metric_alertrule"
    /\ d = [id |-> NoId, f |-> Blank]
    /\ remote = [id \in RemoteIds |-> Absent]
    /\ last = Env("Init")
    /\ retry = NoRetry
    /\ \E tags \in TagMaps, props \in PropertyMaps :
          rt = [stage |-> "alert_remote", Tags |-> tags, Properties |-> props]

NextAlertRead == AlertRule_ReadTags

SpecAlertRead == InitAlertRead /\ [][NextAlertRead]_vars

(***************************************************************************)
(* The quota block of the scheduler job collection                         *)
(* (src/azurerm/resource_arm_scheduler_job_collection.go, lines 266-313).  *)
(* A field of the block that is not configured reads as 0.                 *)
(***************************************************************************)
MaxInterval == 2     \* largest configured interval; 0 is "not set"

Frequencies == {"Minute", "Hour", "Day"}

QuotaBlocks ==
    [max_job_count : 0..MaxInterval, max_recurrence_frequency : Frequencies,
     max_recurrence_interval : 0..MaxInterval, max_retry_interval : 0..MaxInterval]

\* d.Get("quota"): no block or one block
QuotaLists == {<<>>} \cup {<<qb>> : qb \in QuotaBlocks}

\* utils.Int32(int32(v)): the value is kept for every v of the 32-bit range,
\* from which all values here are drawn
Int32(v) == Ptr(v)

\* a faulty expand: the deprecated field is looked at first
expandAzureArmSchedulerJobCollectionQuota_RetryFirst(qb) ==
    IF Len(qb) > 0
    THEN LET quotaBlock == qb[1]
         IN Ptr([MaxJobCount |-> Int32(quotaBlock.max_job_count),
                 MaxRecurrence |->
                     Ptr([Frequency |-> quotaBlock.max_recurrence_frequency,
                          Interval |->
                              IF quotaBlock.max_retry_interval > 0
                              THEN Int32(quotaBlock.max_retry_interval)
                              ELSE IF quotaBlock.max_recurrence_interval > 0
                              THEN Int32(quotaBlock.max_recurrence_interval)
                              ELSE Nil])])
    ELSE Nil

expandAzureArmSchedulerJobCollectionQuota(qb) ==
    IF Len(qb) > 0
    THEN LET quotaBlock == qb[1]
         IN Ptr([MaxJobCount |-> Int32(quotaBlock.max_job_count),
                 MaxRecurrence |->
                     Ptr([Frequency |-> quotaBlock.max_recurrence_frequency,
                          Interval |->
                              IF quotaBlock.max_recurrence_interval > 0
                              THEN Int32(quotaBlock.max_recurrence_interval)
                              ELSE IF quotaBlock.max_retry_interval > 0
                              THEN Int32(quotaBlock.max_retry_interval)
                              ELSE Nil])])
    ELSE Nil

\* two maps joined: the keys of both
Merge(f, g) == [k \in DOMAIN f \cup DOMAIN g |-> IF k \in DOMAIN f THEN f[k] ELSE g[k]]

flattenAzureArmSchedulerJobCollectionQuota(quota) ==
    IF quota = Nil THEN <<>>
    ELSE LET q == quota[1]
             jobCount == IF q.MaxJobCount # Nil
                         THEN [max_job_count |-> q.MaxJobCount[1]] ELSE Blank
             recurrence ==
                 IF q.MaxRecurrence # Nil
                 THEN Merge(IF q.MaxRecurrence[1].Interval # Nil
                            THEN [max_recurrence_interval |-> q.MaxRecurrence[1].Interval[1],
                                  max_retry_interval |-> q.MaxRecurrence[1].Interval[1]]
                            ELSE Blank,
                            [max_recurrence_frequency |-> q.MaxRecurrence[1].Frequency])
                 ELSE Blank
         IN <<Merge(jobCount, recurrence)>>

Quota_Expand ==
    /\ rt.stage = "quota"
    /\ rt' = [stage |-> "quota_expanded", qb |-> rt.qb,
              quota |-> expandAzureArmSchedulerJobCollectionQuota(rt.qb)]
    /\ UNCHANGED <<kind, d, remote, last, retry>>

Quota_Flatten ==
    /\ rt.stage = "quota_expanded"
    /\ rt' = [stage |-> "quota_flat", qb |-> rt.qb, quota |-> rt.quota,
              flat |-> flattenAzureArmSchedulerJobCollectionQuota(rt.quota)]
    /\ UNCHANGED <<kind, d, remote, last, retry>>

InitQuota ==
    /\ kind = "scheduler_job_collection"
    /\ d = [id |-> NoId, f |-> Blank]
    /\ remote = [id \in RemoteIds |-> Absent]
    /\ last = Env("Init")
    /\ retry = NoRetry
    /\ \E qb \in QuotaLists : rt = [stage |-> "quota", qb |-> qb]

NextQuota ==
    \/ Quota_Expand
    \/ Quota_Flatten

SpecQuota == InitQuota /\ [][NextQuota]_vars

(***************************************************************************)
(* The NAT rule of a load balancer.  The rules live in the load balancer:  *)
(* the remote resource is the load balancer and its value is the list of   *)
(* its inbound NAT rules.  The helpers are those of                        *)
(* src/azurerm/loadbalancer.go and of the acceptance test; the adapter     *)
(* itself follows the Create/Update, Read and Delete of the other adapters.*)
(***************************************************************************)
MaxRules == 2        \* distinct NAT rule names

RuleNames == {NameTab[i] : i \in 1..MaxRules}

LbId == <<"resourceGroups", RG, "loadBalancers", "lb1">>
NatRuleId(name) == LbId \o <<"inboundNatRules", name>>

NatRuleConfigs ==
    [name : RuleNames, frontend_port : 1..MaxPorts, backend_port : 1..MaxPorts]

\* the network.InboundNatRule built from the fields
expandNatRule(dd) ==
    [Name |-> Get(dd, "name"), FrontendPort |-> GetInt(dd, "frontend_port"),
     BackendPort |-> GetInt(dd, "backend_port")]

\* the rule lists a load balancer may hold: no two rules of the same name
NatRuleLists ==
    {<<>>} \cup {<<expandNatRule([f |-> cfg])>> : cfg \in NatRuleConfigs}
           \cup {<<expandNatRule([f |-> p[1]]), expandNatRule([f |-> p[2]])>> :
                    p \in {q \in NatRuleConfigs \X NatRuleConfigs : q[1].name # q[2].name}}

\* retrieveLoadBalancerById: the load balancer, whether it exists, the error
retrieveLoadBalancerById(rem, loadBalancerId, c) ==
    LET resp == RemoteGet(rem, loadBalancerId, c)
    IN [lb |-> IF resp.err THEN Nil ELSE Ptr(resp.val),
        exists |-> ~resp.err,
        err |-> resp.err /\ resp.status # 404,
        resp |-> resp]

\* the index of the first rule of that name
findAzureRMLoadBalancerNatRuleByName(lb, name) ==
    IF lb = Nil \/ ~\E i \in DOMAIN lb[1] : lb[1][i].Name = name
    THEN [i |-> 0 - 1, exists |-> FALSE]
    ELSE [i |-> CHOOSE i \in DOMAIN lb[1] :
                    /\ lb[1][i].Name = name
                    /\ \A j \in 1..(i - 1) : lb[1][j].Name # name,
          exists |-> TRUE]

\* a faulty removal: the rules before the one removed are lost with it
RemoveAt_DropsFront(rules, i) == SubSeq(rules, i + 1, Len(rules))

\* append(rules[:i], rules[i+1:]...)
RemoveAt(rules, i) == SubSeq(rules, 1, i - 1) \o SubSeq(rules, i + 1, Len(rules))

resourceArmLoadBalancerNatRuleRead(dd, rem, log, op) ==
    \E c \in CreateFaults :
       LET r == retrieveLoadBalancerById(rem, LbId, c)
           log1 == Append(log, Call("Get", "read", "StopContext", LbId, r.resp))
           name == dd.id[Len(dd.id)]
           found == findAzureRMLoadBalancerNatRuleByName(r.lb, name)
       IN IF r.err THEN Ret(op, dd, rem, log1, "error")
          ELSE IF ~r.exists \/ ~found.exists
          THEN Ret(op, [dd EXCEPT !.id = NoId], rem, log1, "nil")
          ELSE Ret(op, [dd EXCEPT !.f = [name |-> name,
                                         frontend_port |-> r.lb[1][found.i].FrontendPort,
                                         backend_port |-> r.lb[1][found.i].BackendPort]],
                   rem, log1, "nil")

\* for a new resource a rule of the same name is an import-required error; else
\* the old copy of the rule is taken out, the new one appended and the load
\* balancer written back
resourceArmLoadBalancerNatRuleCreateUpdate(dd, isNew, op) ==
    \E c1 \in CreateFaults :
       LET r == retrieveLoadBalancerById(remote, LbId, c1)
           log1 == <<Call("Get", "precheck", "StopContext", LbId, r.resp)>>
           name == Get(dd, "name")
           found == findAzureRMLoadBalancerNatRuleByName(r.lb, name)
       IN IF r.err THEN Ret(op, dd, remote, log1, "error")
          ELSE IF ~r.exists THEN Ret(op, [dd EXCEPT !.id = NoId], remote, log1, "nil")
          ELSE IF found.exists /\ isNew THEN Ret(op, dd, remote, log1, "import")
          ELSE LET natRules == Append(IF found.exists THEN RemoveAt(r.lb[1], found.i)
                                      ELSE r.lb[1],
                                      expandNatRule(dd))
               IN \E c2 \in CreateFaults :
                     LET w == RemotePut(remote, LbId, natRules, c2)
                         log2 == Append(log1, Call("CreateOrUpdate", "write",
                                                   TimeoutForCreateUpdate(isNew), LbId,
                                                   w.resp))
                     IN IF w.resp.err THEN Ret(op, dd, w.rem, log2, "error")
                        ELSE \E c3 \in CreateFaults :
                             LET read == retrieveLoadBalancerById(w.rem, LbId, c3)
                                 log3 == Append(log2, Call("Get", "reread", "StopContext",
                                                           LbId, read.resp))
                             IN IF read.err \/ ~read.exists
                                   \/ ~findAzureRMLoadBalancerNatRuleByName(read.lb, name).exists
                                THEN Ret(op, dd, w.rem, log3, "error")
                                ELSE resourceArmLoadBalancerNatRuleRead(
                                         [dd EXCEPT !.id = NatRuleId(name)], w.rem, log3, op)

resourceArmLoadBalancerNatRuleDelete(dd, op) ==
    \E c1 \in CreateFaults :
       LET r == retrieveLoadBalancerById(remote, LbId, c1)
           log1 == <<Call("Get", "read", "StopContext", LbId, r.resp)>>
           found == findAzureRMLoadBalancerNatRuleByName(r.lb, dd.id[Len(dd.id)])
       IN IF r.err THEN Ret(op, dd, remote, log1, "error")
          ELSE IF ~r.exists \/ ~found.exists
          THEN Ret(op, [dd EXCEPT !.id = NoId], remote, log1, "nil")
          ELSE \E c2 \in CreateFaults :
                  LET w == RemotePut(remote, LbId, RemoveAt(r.lb[1], found.i), c2)
                      log2 == Append(log1, Call("CreateOrUpdate", "write", "TimeoutDelete",
                                                LbId, w.resp))
                  IN IF w.resp.err THEN Ret(op, dd, w.rem, log2, "error")
                     ELSE Ret(op, [dd EXCEPT !.id = NoId], w.rem, log2, "nil")

NatRule_Create ==
    /\ kind = "lb_nat_rule" /\ Idle /\ d.id = NoId
    /\ \E cfg \in NatRuleConfigs :
          resourceArmLoadBalancerNatRuleCreateUpdate([id |-> NoId, f |-> cfg], TRUE, "Create")

\* the resource data an Update to the ports fp and bp is handed
NatRulePlanned(fp, bp) == [d EXCEPT !.f.frontend_port = fp, !.f.backend_port = bp]

NatRule_Update ==
    /\ kind = "lb_nat_rule" /\ Idle /\ d.id # NoId /\ d.f # Blank
    /\ \E fp \in 1..MaxPorts, bp \in 1..MaxPorts :
          resourceArmLoadBalancerNatRuleCreateUpdate(NatRulePlanned(fp, bp), FALSE, "Update")

NatRule_Read ==
    /\ kind = "lb_nat_rule" /\ Idle /\ d.id # NoId
    /\ resourceArmLoadBalancerNatRuleRead(d, remote, <<>>, "Read")

NatRule_Delete ==
    /\ kind = "lb_nat_rule" /\ Idle /\ d.id # NoId
    /\ resourceArmLoadBalancerNatRuleDelete(d, "Delete")

\* testCheckAzureRMLoadBalancerNatRuleDisappears: somebody else writes the load
\* balancer back without one of its rules
NatRule_Disappears ==
    /\ kind = "lb_nat_rule" /\ Idle /\ Exists(remote, LbId)
    /\ \E natRuleName \in RuleNames :
          LET found == findAzureRMLoadBalancerNatRuleByName(Ptr(remote[LbId].val),
                                                            natRuleName)
          IN /\ found.exists
             /\ remote' = [remote EXCEPT
                              ![LbId] = Stored(RemoveAt(remote[LbId].val, found.i))]
    /\ last' = Env("Disappears")
    /\ UNCHANGED <<kind, d, retry, rt>>

InitNatRule ==
    /\ kind = "lb_nat_rule"
    /\ d = [id |-> NoId, f |-> Blank]
    /\ \E rules \in NatRuleLists : remote = [id \in {LbId} |-> Stored(rules)]
    /\ last = Env("Init")
    /\ retry = NoRetry
    /\ rt = NoRecords

NextNatRule ==
    \/ NatRule_Create
    \/ NatRule_Update
    \/ NatRule_Read
    \/ NatRule_Delete
    \/ NatRule_Disappears
    \/ StateRemove

SpecNatRule == InitNatRule /\ [][NextNatRule]_vars

(***************************************************************************)
(* The Create of the traffic manager profile in its two remote steps, the  *)
(* pre-check GET (lines 134-146) and the write with what follows it (lines *)
(* 148-176), with another client of the remote API acting between them.    *)
(* While the Create is between its steps, retry holds what it goes on with.*)
(***************************************************************************)
TrafficManagerProfile_CreateCheck ==
    /\ kind = "traffic_manager_profile" /\ Idle /\ d.id = NoId
    /\ \E cfg \in TrafficManagerProfileConfigs, c1 \in GetFaults :
          LET dd == [id |-> NoId, f |-> cfg]
              target == TrafficManagerProfileId(Get(dd, "resource_group_name"),
                                                Get(dd, "name"))
              resp == RemoteGet(remote, target, c1)
              log1 == <<Call("Get", "precheck", "StopContext", target, resp)>>
          IN IF resp.err /\ ~ResponseWasNotFound(resp)
             THEN Ret("Create", dd, remote, log1, "error")
             ELSE IF resp.id # NoId
             THEN Ret("Create", dd, remote, log1, "import")
             ELSE /\ retry' = [active |-> TRUE, dd |-> dd, target |-> target]
                  /\ last' = [op |-> "Create", err |-> "pending", calls |-> log1]
                  /\ UNCHANGED <<kind, d, remote, rt>>

\* another client creates the profile that the Create has just looked for
OtherActorCreate ==
    /\ kind = "traffic_manager_profile" /\ retry.active
    /\ ~Exists(remote, retry.target)
    /\ \E v \in Vals : remote' = [remote EXCEPT ![retry.target] = Stored(v)]
    /\ UNCHANGED <<kind, d, last, retry, rt>>

TrafficManagerProfile_CreateWrite ==
    /\ kind = "traffic_manager_profile" /\ retry.active
    /\ TrafficManagerProfileWrite(retry.dd, TRUE, "Create", retry.target, last.calls)

InitInterleaved == Init /\ kind = "traffic_manager_profile"

NextInterleaved ==
    \/ TrafficManagerProfile_CreateCheck
    \/ OtherActorCreate
    \/ TrafficManagerProfile_CreateWrite
    \/ TrafficManagerProfile_Update
    \/ TrafficManagerProfile_Read
    \/ TrafficManagerProfile_Delete
    \/ StateRemove
    \/ OtherActorWrite
    \/ OtherActorDelete

SpecInterleaved == InitInterleaved /\ [][NextInterleaved]_vars

(***************************************************************************)
(* The Create of the scheduler job collection in two steps: the pre-check, *)
(* the write and the re-read up to d.SetId (lines 133-181), then the       *)
(* trailing Read (lines 183, 186-231), with another client of the remote   *)
(* API acting between them.  While the Create is between its steps, retry  *)
(* holds the resource data it goes on with.                                *)
(***************************************************************************)
SchedulerJobCollection_CreateWrite ==
    /\ kind = "scheduler_job_collection" /\ Idle /\ d.id = NoId
    /\ \E cfg \in JobCollectionConfigs, c1 \in GetFaults, c2 \in WriteFaults, c3 \in GetFaults :
          LET dd == [id |-> NoId, f |-> cfg]
              target == JobCollectionId(Get(dd, "resource_group_name"), Get(dd, "name"))
              resp == RemoteGet(remote, target, c1)
              log1 == <<Call("Get", "precheck", "StopContext", target, resp)>>
              w == RemotePut(remote, target, GetInt(dd, "state"), c2)
              log2 == Append(log1, Call("CreateOrUpdate", "write",
                                        TimeoutForCreateUpdate(TRUE), target, w.resp))
              collection == RemoteGet(w.rem, target, c3)
              log3 == Append(log2, Call("Get", "reread", "StopContext", target, collection))
          IN IF resp.err /\ ~ResponseWasNotFound(resp)
             THEN Ret("Create", dd, remote, log1, "error")
             ELSE IF resp.id # NoId
             THEN Ret("Create", dd, remote, log1, "import")
             ELSE IF w.resp.err
             THEN Ret("Create", dd, w.rem, log2, "error")
             ELSE IF collection.err
             THEN Ret("Create", dd, w.rem, log3, "error")
             ELSE IF collection.id = NoId
             THEN Ret("Create", dd, w.rem, log3, "panic")
             ELSE /\ retry' = [active |-> TRUE, dd |-> [dd EXCEPT !.id = collection.id],
                               target |-> target]
                  /\ remote' = w.rem
                  /\ last' = [op |-> "Create", err |-> "pending", calls |-> log3]
                  /\ UNCHANGED <<kind, d, rt>>

\* another client deletes the collection that the Create has just written
OtherActorDeleteCreated ==
    /\ kind = "scheduler_job_collection" /\ retry.active
    /\ Exists(remote, retry.target)
    /\ remote' = [remote EXCEPT ![retry.target] = Absent]
    /\ UNCHANGED <<kind, d, last, retry, rt>>

SchedulerJobCollection_CreateRead ==
    /\ kind = "scheduler_job_collection" /\ retry.active
    /\ resourceArmSchedulerJobCollectionRead(retry.dd, remote, last.calls, "Create")

InitCreateRace == Init /\ kind = "scheduler_job_collection"

NextCreateRace ==
    \/ SchedulerJobCollection_CreateWrite
    \/ OtherActorDeleteCreated
    \/ SchedulerJobCollection_CreateRead
    \/ SchedulerJobCollection_Update
    \/ SchedulerJobCollection_Read
    \/ SchedulerJobCollection_Delete
    \/ StateRemove
    \/ OtherActorWrite
    \/ OtherActorDelete

SpecCreateRace == InitCreateRace /\ [][NextCreateRace]_vars

(***************************************************************************)
(* The quota of a scheduler job collection as the remote API returns it,   *)
(* flattened by Read and expanded again by the next Create/Update.         *)
(***************************************************************************)
RemoteQuotas ==
    {Nil} \cup
    {Ptr(q) : q \in [MaxJobCount : {Nil} \cup {Ptr(n) : n \in 0..MaxInterval},
                     MaxRecurrence :
                         {Nil} \cup {Ptr(r) : r \in [Frequency : Frequencies,
                                                     Interval : {Nil} \cup
                                                         {Ptr(n) : n \in 1..MaxInterval}]}]}

\* the quota block as d.Get returns it: a field that was not set reads as its
\* zero value
QuotaBlockRead(m) ==
    [max_job_count |-> IF "max_job_count" \in DOMAIN m THEN m["max_job_count"] ELSE 0,
     max_recurrence_frequency |->
         IF "max_recurrence_frequency" \in DOMAIN m THEN m["max_recurrence_frequency"] ELSE "",
     max_recurrence_interval |->
         IF "max_recurrence_interval" \in DOMAIN m THEN m["max_recurrence_interval"] ELSE 0,
     max_retry_interval |->
         IF "max_retry_interval" \in DOMAIN m THEN m["max_retry_interval"] ELSE 0]

RemoteQuota_Flatten ==
    /\ rt.stage = "remote_quota"
    /\ rt' = [stage |-> "remote_quota_flat", quota |-> rt.quota,
              flat |-> flattenAzureArmSchedulerJobCollectionQuota(rt.quota)]
    /\ UNCHANGED <<kind, d, remote, last, retry>>

RemoteQuota_Expand ==
    /\ rt.stage = "remote_quota_flat"
    /\ rt' = [stage |-> "remote_quota_expanded", quota |-> rt.quota, flat |-> rt.flat,
              expanded |-> expandAzureArmSchedulerJobCollectionQuota(
                               [i \in DOMAIN rt.flat |-> QuotaBlockRead(rt.flat[i])])]
    /\ UNCHANGED <<kind, d, remote, last, retry>>

InitRemoteQuota ==
    /\ kind = "scheduler_job_collection"
    /\ d = [id |-> NoId, f |-> Blank]
    /\ remote = [id \in RemoteIds |-> Absent]
    /\ last = Env("Init")
    /\ retry = NoRetry
    /\ \E quota \in RemoteQuotas : rt = [stage |-> "remote_quota", quota |-> quota]

NextRemoteQuota ==
    \/ RemoteQuota_Flatten
    \/ RemoteQuota_Expand

SpecRemoteQuota == InitRemoteQuota /\ [][NextRemoteQuota]_vars

(***************************************************************************)
(* Import of a load balancer sub-resource (src/azurerm/loadbalancer.go,    *)
(* lines 93-112).  An ID is the sequence of its path segments; a trailing  *)
(* empty segment stands for a trailing "/".                                *)
(***************************************************************************)
MaxSegs == 6         \* path segments of an imported ID

ImportSegs == {"resourceGroups", "loadBalancers", "inboundNatRules", "x"}
ImportIds == UNION {[1..n -> ImportSegs] : n \in 0..MaxSegs}

\* FindString of `.+\/loadBalancers\/.+?\/`: at least one character before
\* "/loadBalancers/", the greedy .+ taking the last such segment that is
\* followed by a segment and a "/"; the match ends with that "/"
FindLoadBalancerPrefix(id) ==
    LET at == {i \in 2..(Len(id) - 2) : id[i] = "loadBalancers"}
    IN IF at = {}
       THEN <<>>
       ELSE SubSeq(id, 1, (CHOOSE i \in at : \A j \in at : j <= i) + 1) \o <<"">>

\* strings.TrimSuffix(s, "/")
TrimSlash(id) ==
    IF Len(id) > 0 /\ id[Len(id)] = "" THEN SubSeq(id, 1, Len(id) - 1) ELSE id

loadBalancerSubResourceStateImporter(id) ==
    LET lbID == TrimSlash(FindLoadBalancerPrefix(id))
        parsed == parseAzureResourceID(lbID)
    IN IF ~parsed.ok
       THEN [err |-> "unable to parse loadbalancer id", loadbalancer_id |-> Nil]
       ELSE IF PathOf(lbID, "loadBalancers") = ""
            THEN [err |-> "parsed ID is invalid", loadbalancer_id |-> Nil]
            ELSE [err |-> "nil", loadbalancer_id |-> Ptr(lbID)]

SubResource_Import ==
    /\ rt.stage = "import"
    /\ LET res == loadBalancerSubResourceStateImporter(rt.id)
       IN rt' = [stage |-> "imported", id |-> rt.id, err |-> res.err,
                 loadbalancer_id |-> res.loadbalancer_id]
    /\ UNCHANGED <<kind, d, remote, last, retry>>

InitImport ==
    /\ kind = "lb_nat_rule"
    /\ d = [id |-> NoId, f |-> Blank]
    /\ remote = [id \in {LbId} |-> Absent]
    /\ last = Env("Init")
    /\ retry = NoRetry
    /\ \E id \in ImportIds : rt = [stage |-> "import", id |-> id]

NextImport == SubResource_Import

SpecImport == InitImport /\ [][NextImport]_vars

(***************************************************************************)
(* The ID of a data lake store file (src/unnamed/part_001, lines 103-106   *)
(* and 156-179) as a string: a sequence of characters in which "S" stands  *)
(* for the DNS suffix azuredatalakestore.net.                              *)
(***************************************************************************)
MaxAccountLen == 2   \* characters of an account name
MaxPathLen == 2      \* characters of a remote file path after its leading "/"

AccountChars == {"a", ".", "S"}
PathChars == {"a", "/", "?", "#"}

AccountNames == UNION {[1..n -> AccountChars] : n \in 1..MaxAccountLen}

\* validateFilePath: a remote file path starts with "/"
RemoteFilePaths == {<<"/">> \o p : p \in UNION {[1..n -> PathChars] : n \in 0..MaxPathLen}}

\* fmt.Sprintf("%s.%s%s", accountName, suffix, remoteFilePath)
SprintfFileId(accountName, suffix, remoteFilePath) ==
    accountName \o <<".">> \o suffix \o remoteFilePath

\* the index of the first character of str that is in S, Len(str) + 1 if none
FirstOf(str, S) ==
    IF \E i \in DOMAIN str : str[i] \in S
    THEN CHOOSE i \in DOMAIN str : str[i] \in S /\ \A j \in 1..(i - 1) : str[j] \notin S
    ELSE Len(str) + 1

\* url.Parse("https://" + input): the fragment is cut off at the first "#",
\* the query at the first "?"; the host runs up to the first "/", the path
\* from there
UrlParse(input) ==
    LET rest == SubSeq(input, 1, FirstOf(input, {"#", "?"}) - 1)
        slash == FirstOf(rest, {"/"})
    IN [Host |-> SubSeq(rest, 1, slash - 1), Path |-> SubSeq(rest, slash, Len(rest))]

\* strings.Replace(str, old, "", -1): every occurrence of old is removed
RECURSIVE ReplaceAll(_, _)
ReplaceAll(str, old) ==
    IF Len(str) < Len(old) THEN str
    ELSE IF SubSeq(str, 1, Len(old)) = old
    THEN ReplaceAll(SubSeq(str, Len(old) + 1, Len(str)), old)
    ELSE <<str[1]>> \o ReplaceAll(Tail(str), old)

\* parseDataLakeStoreFileId on the characters of the ID
parseDataLakeStoreFileIdString(input, suffix) ==
    LET uri == UrlParse(input)
    IN [storageAccountName |-> ReplaceAll(uri.Host, <<".">> \o suffix),
        filePath |-> uri.Path]

FileId_Create ==
    /\ rt.stage = "file"
    /\ rt' = [stage |-> "file_id", accountName |-> rt.accountName,
              remoteFilePath |-> rt.remoteFilePath,
              id |-> SprintfFileId(rt.accountName, <<"S">>, rt.remoteFilePath)]
    /\ UNCHANGED <<kind, d, remote, last, retry>>

FileId_Parse ==
    /\ rt.stage = "file_id"
    /\ rt' = [stage |-> "file_parsed", accountName |-> rt.accountName,
              remoteFilePath |-> rt.remoteFilePath, id |-> rt.id,
              parsed |-> parseDataLakeStoreFileIdString(rt.id, <<"S">>)]
    /\ UNCHANGED <<kind, d, remote, last, retry>>

InitFileId ==
    /\ kind = "data_lake_store_file"
    /\ d = [id |-> NoId, f |-> Blank]
    /\ remote = [id \in RemoteIds |-> Absent]
    /\ last = Env("Init")
    /\ retry = NoRetry
    /\ \E accountName \in AccountNames, remoteFilePath \in RemoteFilePaths :
          rt = [stage |-> "file", accountName |-> accountName,
                remoteFilePath |-> remoteFilePath]

NextFileId ==
    \/ FileId_Create
    \/ FileId_Parse

SpecFileId == InitFileId /\ [][NextFileId]_vars

(***************************************************************************)
(* The name of a log analytics solution (src/unnamed/part_002, lines 94-99 *)
(* and 185-198).  A name is the sequence of its characters.                *)
(***************************************************************************)
MaxNameLen == 2      \* longest solution or workspace name

NameChars == {"a", "(", ")"}

CharStrings == UNION {[1..n -> NameChars] : n \in 0..MaxNameLen}

\* fmt.Sprintf("%s(%s)", solutionName, workspaceName)
SprintfSolutionName(solutionName, workspaceName) ==
    solutionName \o <<"(">> \o workspaceName \o <<")">>

\* strings.Contains for a separator of one character
Contains(str, c) == \E i \in DOMAIN str : str[i] = c

\* strings.Split for a separator of one character: the parts between its
\* occurrences
RECURSIVE Split(_, _)
Split(str, c) ==
    IF ~Contains(str, c) THEN <<str>>
    ELSE LET i == CHOOSE j \in DOMAIN str :
                     str[j] = c /\ \A k \in 1..(j - 1) : str[k] # c
         IN <<SubSeq(str, 1, i - 1)>> \o Split(SubSeq(str, i + 1, Len(str)), c)

TrimPrefix(str, c) == IF Len(str) > 0 /\ str[1] = c THEN Tail(str) ELSE str

\* a faulty trim: every trailing occurrence is cut off
RECURSIVE TrimSuffix_All(_, _)
TrimSuffix_All(str, c) ==
    IF Len(str) > 0 /\ str[Len(str)] = c
    THEN TrimSuffix_All(SubSeq(str, 1, Len(str) - 1), c)
    ELSE str

\* strings.TrimSuffix: one trailing occurrence is cut off
TrimSuffix(str, c) ==
    IF Len(str) > 0 /\ str[Len(str)] = c THEN SubSeq(str, 1, Len(str) - 1) ELSE str

\* Read, lines 185-198: the two fields taken from the name, or the error
SolutionNameFields(name) ==
    LET parts == Split(name, "(")
    IN IF Contains(name, "(") /\ Len(parts) = 2
       THEN [err |-> "nil", solution_name |-> parts[1],
             workspace_name |-> TrimSuffix(TrimPrefix(parts[2], "("), ")")]
       ELSE [err |-> "error", solution_name |-> <<>>, workspace_name |-> <<>>]

Solution_Name ==
    /\ rt.stage = "solution"
    /\ rt' = [stage |-> "solution_named", solutionName |-> rt.solutionName,
              workspaceName |-> rt.workspaceName,
              name |-> SprintfSolutionName(rt.solutionName, rt.workspaceName)]
    /\ UNCHANGED <<kind, d, remote, last, retry>>

Solution_ReadName ==
    /\ rt.stage = "solution_named"
    /\ LET fields == SolutionNameFields(rt.name)
       IN rt' = [stage |-> "solution_read", solutionName |-> rt.solutionName,
                 workspaceName |-> rt.workspaceName, name |-> rt.name,
                 err |-> fields.err, solution_name |-> fields.solution_name,
                 workspace_name |-> fields.workspace_name]
    /\ UNCHANGED <<kind, d, remote, last, retry>>

InitSolution ==
    /\ kind = "log_analytics_solution"
    /\ d = [id |-> NoId, f |-> Blank]
    /\ remote = [id \in RemoteIds |-> Absent]
    /\ last = Env("Init")
    /\ retry = NoRetry
    /\ \E solutionName \in CharStrings, workspaceName \in CharStrings :
          rt = [stage |-> "solution", solutionName |-> solutionName,
                workspaceName |-> workspaceName]

NextSolution ==
    \/ Solution_Name
    \/ Solution_ReadName

SpecSolution == InitSolution /\ [][NextSolution]_vars

(***************************************************************************)
(* Properties.                                                             *)
(***************************************************************************)
CallsWith(l, roles) == {i \in DOMAIN l.calls : l.calls[i].role \in roles}

\* the remote resource an ID addresses: a function of the ID alone
AddressOf(id) ==
    IF kind = "data_lake_store_file"
    THEN DataLakeStoreFileId(parseDataLakeStoreFileId(id, AdlsFileSystemDNSSuffix).storageAccountName,
                             AdlsFileSystemDNSSuffix,
                             parseDataLakeStoreFileId(id, AdlsFileSystemDNSSuffix).filePath)
    ELSE id

\* C1: in every adapter, a Read whose remote GET answers 404 (not found) leaves
\* the local ID empty and returns no error.
C1_ReadNotFoundClearsId ==
    (last.op = "Read" /\ \E i \in CallsWith(last, {"read"}) : last.calls[i].status = 404)
    => (d.id = NoId /\ last.err = "nil")

C1_Witness ==
    /\ kind = "key_vault_key" /\ last.op = "Read" /\ last.err = "nil" /\ d.id = NoId
    /\ \E i \in CallsWith(last, {"read"}) : last.calls[i].status = 404

\* C2: in every adapter, a Delete whose remote DELETE call or completion wait
\* answers 404 (and that met no other remote failure) returns no error.
C2_DeleteNotFoundSucceeds ==
    (/\ last.op = "Delete"
     /\ \E i \in CallsWith(last, {"delete", "wait"}) : last.calls[i].status = 404
     /\ \A i \in DOMAIN last.calls : last.calls[i].err => last.calls[i].status = 404)
    => last.err = "nil"

\* C3: a Create of a new resource whose remote resource already exists (and whose
\* existence check, if one is made, is answered with that resource) returns the
\* import-required error, issues no write call and leaves the local ID unset.
C3_CreateExistingRequiresImport ==
    [][(/\ last'.op = "Create" /\ ~retry.active /\ d.id = NoId
        /\ \E i \in CallsWith(last', {"precheck", "write"}) :
              Exists(remote, last'.calls[i].target)
        /\ \A i \in CallsWith(last', {"precheck"}) :
              last'.calls[i].status = 200 /\ last'.calls[i].id # NoId)
       => (/\ last'.err = "import"
           /\ CallsWith(last', {"write"}) = {}
           /\ d'.id = NoId)]_vars

\* whether the adapter's operation stores the ID that a re-read GET returned
RereadsId ==
    \/ kind \in {"scheduler_job_collection", "eventhub_consumer_group",
                 "traffic_manager_profile", "metric_alertrule", "log_analytics_solution",
                 "role_assignment"}
    \/ kind = "key_vault_key" /\ last.op = "Create"

\* the write call was accepted: no error, or, for the log analytics solution, an
\* error whose response has status 201
WriteTookEffect(c) ==
    ~c.err \/ (kind = "log_analytics_solution" /\ c.status = 201)

\* C4 as stated: in every Create/Update that reaches its Read, a successful write
\* call is followed by a successful re-read GET with a non-nil ID, that ID is the
\* one stored (the one Read then looks up), and Read comes last.
C4_WriteRereadSetIdRead ==
    (last.op \in {"Create", "Update"} /\ CallsWith(last, {"read"}) # {})
    => \E i \in CallsWith(last, {"write"}), j \in CallsWith(last, {"reread"}) :
          /\ i < j /\ ~last.calls[i].err
          /\ ~last.calls[j].err /\ last.calls[j].id # NoId
          /\ \A k \in CallsWith(last, {"read"}) :
                j < k /\ last.calls[k].target = last.calls[j].id

\* C4 amended: in every Create/Update that reaches its Read, a write call that
\* was accepted comes before Read, and a Create never ends with an ID without
\* one.  The stored ID (the one Read looks up) is the ID of a successful re-read
\* GET made after the write for the scheduler job collection, event hub consumer
\* group, traffic manager profile, metric alert rule, log analytics solution,
\* role assignment and key vault key Create; the ID returned by the write call
\* itself for the DNS AAAA record; the resource the write call addressed for the
\* data lake store file (ID built from the configuration) and the key vault key
\* Update (ID left as it was).
C4_IdSetAfterWrite ==
    /\ (last.op \in {"Create", "Update"} /\ CallsWith(last, {"read"}) # {})
       => \E i \in CallsWith(last, {"write"}) :
             /\ WriteTookEffect(last.calls[i])
             /\ \A k \in CallsWith(last, {"read"}) : i < k
             /\ IF RereadsId
                THEN \E j \in CallsWith(last, {"reread"}) :
                        /\ i < j /\ ~last.calls[j].err /\ last.calls[j].id # NoId
                        /\ \A k \in CallsWith(last, {"read"}) :
                              j < k /\ last.calls[k].target = last.calls[j].id
                ELSE IF kind = "dns_aaaa_record"
                THEN /\ last.calls[i].id # NoId
                     /\ \A k \in CallsWith(last, {"read"}) :
                           last.calls[k].target = last.calls[i].id
                ELSE \A k \in CallsWith(last, {"read"}) :
                        last.calls[k].target = last.calls[i].target
    /\ (last.op = "Create" /\ d.id # NoId)
       => \E i \in CallsWith(last, {"write"}) : WriteTookEffect(last.calls[i])

C4_Witness ==
    /\ kind = "scheduler_job_collection" /\ last.op = "Create" /\ last.err = "nil"
    /\ d.id # NoId
    /\ Len(last.calls) = 4
    /\ last.calls[2].role = "write" /\ last.calls[3].role = "reread"
    /\ last.calls[4].role = "read" /\ d.id = last.calls[3].id

\* a failed call that an operation may pass over: a 404 answer to a Read GET, to
\* a Delete call or its completion wait, or to a Create existence check, and an
\* attempt of role assignment's retry loop
MayPassOver(c) ==
    \/ c.status = 404 /\ c.role \in {"read", "delete", "wait", "precheck"}
    \/ kind = "role_assignment" /\ c.role = "write"

TakenAsSuccess(c) ==
    \/ kind = "log_analytics_solution" /\ c.role = "write" /\ c.status = 201
    \/ kind = "dns_aaaa_record" /\ c.role = "delete" /\ c.status = 200

C6_EveryCallHasDeadline ==
    \A i \in DOMAIN last.calls : last.calls[i].ctx # "StopContext"

\* what holds of the create calls of a role assignment Create at every moment
RetryLoopSafe ==
    /\ \A i, j \in CallsWith(last, {"write"}) : i < j => last.calls[i].err
    /\ Cardinality(CallsWith(last, {"write"})) <= MaxAttempts
    /\ retry.active => \A i \in CallsWith(last, {"write"}) : last.calls[i].err
    /\ (/\ ~retry.active /\ CallsWith(last, {"write"}) # {}
        /\ \A i \in CallsWith(last, {"write"}) : last.calls[i].err)
       => last.err = "error"

\* C7: role assignment Create's retry loop ends: it makes no create call after a
\* successful one, makes at most the attempts that fit into the Create timeout,
\* returns an error when every attempt failed, and once entered is always left.
C7_RetryLoopTerminates ==
    /\ []((kind = "role_assignment" /\ last.op = "Create") => RetryLoopSafe)
    /\ (retry.active ~> ~retry.active)

C7_Witness ==
    /\ kind = "role_assignment" /\ last.op = "Create" /\ ~retry.active
    /\ last.err = "nil" /\ d.id # NoId
    /\ \E i, j \in CallsWith(last, {"write"}) :
          i < j /\ last.calls[i].err /\ ~last.calls[j].err

\* C8: every remote call of a Read or a Delete addresses the resource that the
\* stored ID names, whatever the values of the fields.
C8_AddressedByStoredId ==
    [][last'.op \in {"Read", "Delete"}
       => \A i \in DOMAIN last'.calls : last'.calls[i].target = AddressOf(d.id)]_vars

\* C9: a successful Update leaves the local ID as it was and writes to the
\* resource that this ID names.
C9_UpdateKeepsId ==
    [][(last'.op = "Update" /\ last'.err = "nil")
       => (/\ d'.id = d.id
           /\ \A i \in CallsWith(last', {"write"}) :
                 last'.calls[i].target = AddressOf(d.id))]_vars

\* the IPv6 addresses of a remote record list
AddressesOf(records) ==
    IF records.isNil THEN {}
    ELSE {records.items[i] : i \in DOMAIN records.items} \ {NilAddress}

\* C10: the records expanded from the flattened remote list carry exactly the
\* IPv6 addresses of that list.
C10_ExpandFlattenKeepsAddresses ==
    rt.stage = "expanded"
    => {rt.expanded[i].Ipv6Address : i \in DOMAIN rt.expanded} = AddressesOf(rt.records)

C10_Witness ==
    /\ rt.stage = "expanded" /\ ~rt.records.isNil
    /\ Len(rt.records.items) = MaxRecords
    /\ \E i \in DOMAIN rt.records.items : rt.records.items[i] = NilAddress
    /\ Len(rt.expanded) = 2

\* C11: for every remote DNS config and monitor config of a traffic manager
\* profile that is flattened and expanded again, relative_name, ttl, protocol,
\* port and path come back identical to the original, a nil path included.
C11_ProfileBlocksRoundTrip ==
    rt.stage = "profile_expanded"
    => (/\ rt.DNSConfig.RelativeName = rt.dns.RelativeName
        /\ rt.DNSConfig.TTL = rt.dns.TTL
        /\ rt.MonitorConfig.Protocol = rt.monitor.Protocol
        /\ rt.MonitorConfig.Port = rt.monitor.Port
        /\ rt.MonitorConfig.Path = rt.monitor.Path)

\* the fields of a metric alert rule that the claim names
AlertRuleFields ==
    {"operator", "threshold", "period", "aggregation", "resource_id", "metric_name",
     "webhook_action"}

\* C12: after a successful Create of a metric alert rule with a configuration,
\* the local state (after the trailing Read) holds a non-empty ID, and operator,
\* threshold, period, aggregation, resource_id, metric_name and the
\* webhook_action service_uri are the configured ones.
C12_CreateReadsBackConfig ==
    [][\A cfg \in MetricAlertRuleConfigs :
          (/\ kind = "metric_alertrule" /\ Idle /\ d.id = NoId
           /\ resourceArmMetricAlertRuleCreateUpdate([id |-> NoId, f |-> cfg], TRUE, "Create")
           /\ last'.err = "nil")
          => (/\ d'.id # NoId
              /\ \A k \in AlertRuleFields : d'.f[k] = cfg[k])]_vars

C12_Witness ==
    /\ kind = "metric_alertrule" /\ last.op = "Create" /\ last.err = "nil"
    /\ d.id # NoId
    /\ d.f["operator"] = OperatorTab[2] /\ d.f["threshold"] = 2
    /\ d.f["webhook_action"] = <<[service_uri |-> HOOK]>>
    /\ \E i \in CallsWith(last, {"read"}) : last.calls[i].status = 200

\* the tag keys that are "$type" when upper and lower case are not told apart
ReservedKeys(tags) ==
    {k \in DOMAIN tags :
        /\ Len(k) = 5 /\ k[1] = "$"
        /\ k[2] \in {"t", "T"} /\ k[3] \in {"y", "Y"} /\ k[4] \in {"p", "P"} /\ k[5] \in {"e", "E"}}

\* C13: validateMetricAlertRuleTags returns at least one error for every tag
\* map with a key equal to "$type" in any mix of upper and lower case, and for
\* a tag map without such a key the errors are those of the general tag
\* validation alone.
C13_ReservedTagKeyRejected ==
    rt.stage = "tags_validated"
    => /\ ReservedKeys(rt.tags) # {} => Len(rt.es) >= 1
       /\ ReservedKeys(rt.tags) = {} => rt.es = rt.base

C13_Witness ==
    /\ rt.stage = "tags_validated"
    /\ ReservedKeys(rt.tags) = {TagKeyTab[2]}
    /\ Cardinality(DOMAIN rt.tags) >= 2
    /\ rt.base = <<>>
    /\ Len(rt.es) = 1

\* the operations that start by parsing the stored ID
ParsingOps ==
    IF kind = "key_vault_key" THEN {"Read", "Delete", "Update"} ELSE {"Read", "Delete"}

\* the step is an operation that returned the parse error and did nothing else:
\* no remote call, the ID and the fields as the operation received them
ParseErrorOnly ==
    /\ last'.err = "parse"
    /\ last'.calls = <<>>
    /\ remote' = remote
    /\ d'.id = d.id
    /\ IF last'.op = "Update" THEN d' \in KeyVaultKeyPlanned(d) ELSE d'.f = d.f

ParseRejects(id) ==
    CASE kind = "key_vault_key" -> ~parseKeyVaultChildID(id).ok
      [] kind = "data_lake_store_file" ->
             ~parseDataLakeStoreFileId(id, AdlsFileSystemDNSSuffix).ok
      [] kind = "role_assignment" -> FALSE
      [] OTHER -> ~parseAzureResourceID(id).ok

C15_ReadNeverDereferencesNil ==
    (/\ last.op = "Read"
     /\ \A i \in DOMAIN last.calls : ~last.calls[i].err)
    => last.err # "panic"

\* the Interval of an expanded quota
IntervalOf(quota) == quota[1].MaxRecurrence[1].Interval

\* C16: expand sets the remote recurrence interval from max_recurrence_interval
\* when that is greater than 0, otherwise from max_retry_interval when that is
\* greater than 0, and otherwise leaves it unset; flatten writes a present
\* remote interval to max_recurrence_interval and to max_retry_interval.
C16_QuotaIntervalPriority ==
    (rt.stage \in {"quota_expanded", "quota_flat"} /\ rt.qb # <<>>)
    => LET recurrence == rt.qb[1].max_recurrence_interval
           retrying == rt.qb[1].max_retry_interval
           interval == IntervalOf(rt.quota)
       IN /\ recurrence > 0 => interval = <<recurrence>>
          /\ (recurrence <= 0 /\ retrying > 0) => interval = <<retrying>>
          /\ (recurrence <= 0 /\ retrying <= 0) => interval = <<>>
          /\ (rt.stage = "quota_flat" /\ interval # <<>>)
             => /\ rt.flat[1]["max_recurrence_interval"] = interval[1]
                /\ rt.flat[1]["max_retry_interval"] = interval[1]

C16_Witness ==
    /\ rt.stage = "quota_flat" /\ rt.qb # <<>>
    /\ rt.qb[1].max_recurrence_interval = 0 /\ rt.qb[1].max_retry_interval = 2
    /\ rt.flat[1]["max_recurrence_interval"] = 2

\* the field that the Update of the adapter changes
UpdatableField ==
    CASE kind = "dns_aaaa_record" -> "ttl"
      [] kind = "scheduler_job_collection" -> "state"
      [] kind = "eventhub_consumer_group" -> "user_metadata"
      [] kind = "traffic_manager_profile" -> "traffic_routing_method"
      [] kind = "metric_alertrule" -> "threshold"
      [] kind = "key_vault_key" -> "key_opts"
      [] kind = "log_analytics_solution" -> "location"
      [] OTHER -> ""

\* the step is the adapter's Update with the updatable field set to v
UpdateTo(v) ==
    LET dd == [d EXCEPT !.f[UpdatableField] = v]
    IN CASE kind = "dns_aaaa_record" ->
                resourceArmDnsAaaaRecordCreateOrUpdate(dd, FALSE, "Update")
         [] kind = "scheduler_job_collection" ->
                resourceArmSchedulerJobCollectionCreateUpdate(dd, FALSE, "Update")
         [] kind = "eventhub_consumer_group" ->
                resourceArmEventHubConsumerGroupCreateUpdate(dd, FALSE, "Update")
         [] kind = "traffic_manager_profile" ->
                resourceArmTrafficManagerProfileCreateUpdate(dd, FALSE, "Update")
         [] kind = "metric_alertrule" ->
                resourceArmMetricAlertRuleCreateUpdate(dd, FALSE, "Update")
         [] kind = "key_vault_key" -> resourceArmKeyVaultKeyUpdate(dd, "Update")
         [] kind = "log_analytics_solution" ->
                resourceArmLogAnalyticsSolutionCreateUpdate(dd, FALSE, "Update")
         [] OTHER -> FALSE

C19_ReapplyAfterStateRemoveSucceeds ==
    [][\A cfg \in NatRuleConfigs :
          (/\ kind = "lb_nat_rule" /\ Idle /\ d.id = NoId /\ last.op = "StateRemove"
           /\ Exists(remote, LbId)
           /\ \E i \in DOMAIN remote[LbId].val :
                 remote[LbId].val[i] = expandNatRule([f |-> cfg])
           /\ resourceArmLoadBalancerNatRuleCreateUpdate([id |-> NoId, f |-> cfg], TRUE,
                                                         "Create")
           /\ \A i \in DOMAIN last'.calls : ~last'.calls[i].err)
          => (/\ last'.err = "nil"
              /\ \E i \in DOMAIN remote'[LbId].val :
                    remote'[LbId].val[i].Name = cfg.name)]_vars

\* C20: when another client may create the profile while a Create for a new
\* resource is under way, the write call of the Create is never issued for a
\* profile that exists at that moment: the Create has failed with the
\* import-required error, or the profile did not exist.
C20_CreateNeverOverwrites ==
    [][IF retry.active /\ last'.op = "Create" /\ CallsWith(last', {"write"}) # {}
       THEN last'.err = "import" \/ ~Exists(remote, retry.target)
       ELSE TRUE]_vars

\* C21: in every adapter, the remote DELETE call of a Delete runs under the
\* resource's Delete timeout, not under the Create or Update timeout.
C21_DeleteUnderDeleteTimeout ==
    last.op = "Delete"
    => \A i \in CallsWith(last, {"delete"}) : last.calls[i].ctx = "TimeoutDelete"

\* C22: for every solution_name and workspace_name, the remote name is
\* "solution_name(workspace_name)", and when the Read of that name succeeds it
\* sets solution_name and workspace_name to the configured values.
C22_SolutionNameReadBack ==
    /\ rt.stage \in {"solution_named", "solution_read"}
       => rt.name = rt.solutionName \o <<"(">> \o rt.workspaceName \o <<")">>
    /\ (rt.stage = "solution_read" /\ rt.err = "nil")
       => /\ rt.solution_name = rt.solutionName
          /\ rt.workspace_name = rt.workspaceName

C22_Witness ==
    /\ rt.stage = "solution_read" /\ rt.err = "nil"
    /\ rt.solutionName = <<"a", ")">> /\ rt.workspaceName = <<"a", ")">>
    /\ rt.workspace_name = <<"a", ")">>

\* the recurrence frequency and interval of a quota; an absent recurrence
\* block has the empty frequency and no interval
FrequencyOf(quota) ==
    IF quota[1].MaxRecurrence = Nil THEN "" ELSE quota[1].MaxRecurrence[1].Frequency

RecurrenceIntervalOf(quota) ==
    IF quota[1].MaxRecurrence = Nil THEN Nil ELSE quota[1].MaxRecurrence[1].Interval

\* C23: a nil remote quota flattens to no block and expands to nil; for every
\* other remote quota, expand(flatten(quota)) has the quota's max job count,
\* recurrence frequency and recurrence interval, also when the max job count,
\* the recurrence block or the interval is absent.
C23_QuotaRoundTrip ==
    rt.stage = "remote_quota_expanded"
    => IF rt.quota = Nil
       THEN rt.flat = <<>> /\ rt.expanded = Nil
       ELSE /\ rt.expanded # Nil
            /\ rt.expanded[1].MaxJobCount = rt.quota[1].MaxJobCount
            /\ FrequencyOf(rt.expanded) = FrequencyOf(rt.quota)
            /\ RecurrenceIntervalOf(rt.expanded) = RecurrenceIntervalOf(rt.quota)

LoadBalancerIds == {<<"resourceGroups", rg, "loadBalancers", lb>> : rg, lb \in ImportSegs}

HasLoadBalancerSegment(id) == \E i \in 1..(Len(id) - 2) : id[i] = "loadBalancers"

\* C25: the importer, given <loadBalancerID>/<subResourceType>/<name>, sets
\* loadbalancer_id to <loadBalancerID> and returns the resource; given an ID
\* without a loadBalancers/<name>/ segment it returns an error and sets no
\* field.
C25_ImporterSetsLoadBalancerId ==
    rt.stage = "imported"
    => /\ \A lbID \in LoadBalancerIds, name \in ImportSegs :
             rt.id = lbID \o <<"inboundNatRules", name>>
             => rt.err = "nil" /\ rt.loadbalancer_id = Ptr(lbID)
       /\ ~HasLoadBalancerSegment(rt.id)
          => rt.err # "nil" /\ rt.loadbalancer_id = Nil

\* C26: whenever a Create returns no error the local ID is non-empty, also
\* when the resource is deleted remotely between the Create's write call and
\* its trailing Read.
C26_CreateSuccessHasId ==
    (last.op = "Create" /\ last.err = "nil") => d.id # NoId

\* C27: when a Create for a new resource returns an error, no remote
\* resource exists as a result of that Create: a resource that comes to
\* exist in a failed Create step is tracked by a local ID.
C27_FailedCreateLeavesNothing ==
    [][(d.id = NoId /\ last'.op = "Create" /\ ~retry'.active /\ last'.err # "nil")
       => \A id \in RemoteIds : (Exists(remote', id) /\ ~Exists(remote, id)) => d'.id # NoId]_vars

\* C28: a Delete returns an error only if parsing the stored ID failed or a
\* remote call returned an error; when the remote DELETE call succeeds with
\* status 200, 202 or 204 and no other call fails, Delete returns no error.
C28_DeleteErrorHasCause ==
    (last.op = "Delete" /\ last.err # "nil")
    => \/ last.err = "parse"
       \/ \E i \in DOMAIN last.calls : last.calls[i].err

\* what C29 says of the calls of a role assignment Create: a lookup that
\* failed or matched zero or several definitions is followed by no create
\* call and the Create has failed; after a lookup that matched one definition
\* every create request carries that definition's ID
RoleDefinitionLookupObeyed(l) ==
    \A i \in DOMAIN l.calls :
       l.calls[i].role = "list"
       => IF l.calls[i].err \/ Len(l.calls[i].values) # 1
          THEN l.err = "error" /\ CallsWith(l, {"write"}) = {}
          ELSE \A j \in CallsWith(l, {"write"}) :
                  l.calls[j].properties.RoleDefinitionID = l.calls[i].values[1]

\* C29: role assignment Create issues no remote create call and returns an
\* error when neither role_definition_id nor role_definition_name is set, or
\* when role_definition_name matches zero or several role definitions; when
\* exactly one definition matches, its ID is the one sent in the create
\* request.
C29_RoleDefinitionLookup ==
    [][/\ \A cfg \in RoleAssignmentConfigs :
             (/\ kind = "role_assignment" /\ Idle /\ d.id = NoId
              /\ cfg.role_definition_id = "" /\ cfg.role_definition_name = ""
              /\ resourceArmRoleAssignmentCreate([id |-> NoId, f |-> cfg]))
             => (/\ last'.err = "error" /\ last'.calls = <<>>
                 /\ ~retry'.active /\ remote' = remote)
       /\ (kind = "role_assignment" /\ last'.op = "Create")
          => RoleDefinitionLookupObeyed(last')]_vars

C29_Witness ==
    /\ kind = "role_assignment" /\ last.op = "Create" /\ last.err = "nil" /\ d.id # NoId
    /\ \E i \in DOMAIN last.calls :
          /\ last.calls[i].role = "list"
          /\ last.calls[i].values = <<ROLEDEF2>>
    /\ \E j \in CallsWith(last, {"write"}) :
          /\ ~last.calls[j].err
          /\ last.calls[j].properties.RoleDefinitionID = ROLEDEF2
    /\ remote[d.id].val.RoleDefinitionID = ROLEDEF2

\* C30: for every account name and remote file path, parseDataLakeStoreFileId
\* applied to the ID that Create builds yields the same account name and the
\* same file path.
C30_FileIdRoundTrip ==
    rt.stage = "file_parsed"
    => /\ rt.parsed.storageAccountName = rt.accountName
       /\ rt.parsed.filePath = rt.remoteFilePath
====
